---------------------------- MODULE Spec2Model ----------------------------
(***************************************************************************)
(* VeritasChain: VeritasToken (ERC-20), MinerRegistry and VeritasCore as   *)
(* one state machine.  Every external call of a contract is one action; a  *)
(* call that reverts leaves the contract state untouched and is recorded   *)
(* in lastCall together with the revert reason.                            *)
(***************************************************************************)
EXTENDS Integers, Sequences, FiniteSets, TLC

(***************************************************************************)
(* Addresses                                                               *)
(***************************************************************************)
ZeroAddr == "0x0"
Owner == "owner"
Agg == "agg"
User == "user"
Core == "core"
Registry == "registry"
Miners == {"m1", "m2"}
Accounts == {Owner, Agg, User, Core, Registry} \cup Miners

(***************************************************************************)
(* Program constants.  Token amounts are in whole VRT (10^18 wei).         *)
(***************************************************************************)
InitialReputation == 50
MaxReputation == 100
ReputationGain == 1
ReputationPenalty == 5
EligibilityFloor == 20
MinerSharePercent == 80

(***************************************************************************)
(* The deployment of the test fixture (test/Veritas.test.js, beforeEach).  *)
(***************************************************************************)
InitialSupply == 1000000
MinimumStake == 100
InitialFee == 10
StakeAmount == 200
UserFunds == 1000
UserApproval == 10

(***************************************************************************)
(* Bounds of the exploration                                               *)
(***************************************************************************)
MaxWinners == 2
MaxJobs == 7
MaxJobsDeep == 52
MaxRequests == 3

FeeValues == {4, 5, InitialFee, 20}
RegisterAmounts == {MinimumStake - 1, MinimumStake, StakeAmount}
SlashAmount == 150
SlashAmounts == {50, SlashAmount}
AggregatorCandidates == {Agg, User}
OwnerCallers == {Owner, User}
WinnerCandidates == Miners
RequestIds == 0..(MaxRequests - 1)
FirstRequest == {0}

VARIABLES
    balances,        \* ERC20 _balances
    totalSupply,     \* ERC20 _totalSupply
    allowance,       \* ERC20 _allowances, for the pairs of AllowPairs
    miners,          \* MinerRegistry.miners
    minerList,       \* MinerRegistry.minerList
    aggregator,      \* VeritasCore.aggregator
    verificationFee, \* VeritasCore.verificationFee
    requests,        \* VeritasCore.requests
    nextRequestId,   \* VeritasCore.nextRequestId
    feeCollected,    \* history: fee moved into the core by submitRequest, per id
    paidToMiners,    \* history: tokens paid out by finalizeResult, per id
    everFinalized,   \* history: ids for which finalizeResult has succeeded
    excluded,        \* history: miners whose last update left a score <= 20
    lastCall,        \* history: the last external call and its outcome
    pending,         \* NewRequest events emitted and not yet handled
    aggregatorTx,    \* outcome of the aggregator's last consensus run
    handlers,        \* the NewRequest handler of each request, run concurrently
    reputationLoop,  \* the simulations' loop over updateMinerPerformance
    minerHistory,    \* history: performance calls and rewards per miner
    payout,          \* simulation_v1: committee and rewardAmounts so far
    selection,       \* the reports a committee is selected from, and it
    veriBalances,    \* VERIToken _balances, in wei
    veriAllowance,   \* VERIToken _allowances, for the pairs of VeriPairs
    validators,      \* ValidatorRegistry.validators
    validatorAddresses, \* ValidatorRegistry.validatorAddresses
    certifications,  \* CertificationRegistry.certifications
    certifiedContentHashes, \* CertificationRegistry.certifiedContentHashes
    blockTime,       \* block.timestamp of the local chain
    slashCount       \* history: the slashValidator calls that succeeded

vars == <<balances, totalSupply, allowance, miners, minerList, aggregator,
          verificationFee, requests, nextRequestId, feeCollected,
          paidToMiners, everFinalized, excluded, lastCall, pending,
          aggregatorTx, handlers,
          reputationLoop, minerHistory, payout, selection, veriBalances,
          veriAllowance,
          validators, validatorAddresses, certifications,
          certifiedContentHashes, blockTime, slashCount>>

tokenVars == <<balances, totalSupply, allowance>>
registryVars == <<miners, minerList>>
coreVars == <<aggregator, verificationFee, requests, nextRequestId>>
historyVars == <<feeCollected, paidToMiners, everFinalized, excluded>>
aggregatorVars == <<pending, aggregatorTx, handlers>>
povVars == <<veriBalances, veriAllowance, validators, validatorAddresses,
             certifications, certifiedContentHashes, blockTime,
             slashCount>>
otherVars == <<reputationLoop, minerHistory, payout, selection, povVars>>

AllowPairs == {<<User, Core>>} \cup {<<m, Registry>> : m \in Miners}

(***************************************************************************)
(* Solidity integer division truncates.                                    *)
(***************************************************************************)
Min(a, b) == IF a < b THEN a ELSE b
Max(a, b) == IF a > b THEN a ELSE b

(***************************************************************************)
(* uint256 amounts in wei.  The amounts of the VERI contracts and of the   *)
(* proportional rewards (10^16 .. 10^25 wei) are kept exactly, as WeiLimbs *)
(* digits in base WeiBase, most significant first.                         *)
(***************************************************************************)
WeiBase == 1000000
WeiLimbs == 5

Wei == [1..WeiLimbs -> 0..(WeiBase - 1)]

WeiZero == [i \in 1..WeiLimbs |-> 0]

(* n * WeiBase^k for a digit n *)
WeiOf(n, k) == [i \in 1..WeiLimbs |-> IF i = WeiLimbs - k THEN n ELSE 0]

RECURSIVE WeiCarryAdd(_, _, _, _)
WeiCarryAdd(a, b, i, carry) ==
    IF i = 0 THEN <<>>
    ELSE LET t == a[i] + b[i] + carry IN
         Append(WeiCarryAdd(a, b, i - 1, t \div WeiBase), t % WeiBase)

WeiAdd(a, b) ==
    LET r == WeiCarryAdd(a, b, WeiLimbs, 0) IN [i \in 1..WeiLimbs |-> r[i]]

RECURSIVE WeiBorrowSub(_, _, _, _)
WeiBorrowSub(a, b, i, borrow) ==
    IF i = 0 THEN <<>>
    ELSE LET t == a[i] - b[i] - borrow IN
         Append(WeiBorrowSub(a, b, i - 1, IF t < 0 THEN 1 ELSE 0),
                IF t < 0 THEN t + WeiBase ELSE t)

(* a - b for a >= b *)
WeiSub(a, b) ==
    LET r == WeiBorrowSub(a, b, WeiLimbs, 0) IN [i \in 1..WeiLimbs |-> r[i]]

RECURSIVE WeiLessFrom(_, _, _)
WeiLessFrom(a, b, i) ==
    IF i > WeiLimbs THEN FALSE
    ELSE IF a[i] # b[i] THEN a[i] < b[i]
    ELSE WeiLessFrom(a, b, i + 1)

WeiLess(a, b) == WeiLessFrom(a, b, 1)

WeiLeq(a, b) == ~WeiLess(b, a)

RECURSIVE WeiCarryMul(_, _, _, _)
WeiCarryMul(a, n, i, carry) ==
    IF i = 0 THEN <<>>
    ELSE LET t == a[i] * n + carry IN
         Append(WeiCarryMul(a, n, i - 1, t \div WeiBase), t % WeiBase)

(* a * n for a small n *)
WeiMul(a, n) ==
    LET r == WeiCarryMul(a, n, WeiLimbs, 0) IN [i \in 1..WeiLimbs |-> r[i]]

RECURSIVE WeiLongDiv(_, _, _, _)
WeiLongDiv(a, d, i, rem) ==
    IF i > WeiLimbs THEN <<>>
    ELSE LET t == rem * WeiBase + a[i] IN
         <<t \div d>> \o WeiLongDiv(a, d, i + 1, t % d)

(* a / d truncated, for a small d *)
WeiDiv(a, d) ==
    LET r == WeiLongDiv(a, d, 1, 0) IN [i \in 1..WeiLimbs |-> r[i]]

(***************************************************************************)
(* Records                                                                 *)
(***************************************************************************)
NoMiner ==
    [isRegistered |-> FALSE, stakedAmount |-> 0, reputationScore |-> 0,
     totalRequestsProcessed |-> 0, successfulJobs |-> 0, failedJobs |-> 0]

NoRequest ==
    [id |-> 0, requester |-> ZeroAddr, isFinalized |-> FALSE, isAI |-> FALSE,
     aiConfidence |-> 0]

NoCall ==
    [op |-> "constructor", sender |-> Owner, status |-> "ok", id |-> 0,
     isAI |-> FALSE, conf |-> 0, winners |-> <<>>, miner |-> ZeroAddr,
     amount |-> 0, passed |-> FALSE]

NoTx ==
    [variant |-> "none", id |-> 0, reports |-> <<>>, winners |-> <<>>,
     aiWeight |-> 0, realWeight |-> 0, isAI |-> FALSE, score |-> 0,
     send |-> FALSE]

(***************************************************************************)
(* A NewRequest handler that has not run: idle.  It is sending once the    *)
(* finalizeResult transaction is built, returned when it ended without     *)
(* one, finalized when tx.wait() succeeded and failed when the catch block *)
(* logged an error.                                                        *)
(***************************************************************************)
NoHandler == [state |-> "idle", tx |-> NoTx]

Ok == "ok"

(***************************************************************************)
(* A reverted transaction: nothing but the call record changes.            *)
(***************************************************************************)
RevertChain(call, reason) ==
    /\ lastCall' = [call EXCEPT !.status = reason]
    /\ UNCHANGED <<tokenVars, registryVars, coreVars, historyVars>>

Revert(call, reason) ==
    /\ RevertChain(call, reason)
    /\ UNCHANGED <<aggregatorVars, otherVars>>

(***************************************************************************)
(* Ownable.onlyOwner rejects the call before the body reads any argument.  *)
(***************************************************************************)
UnauthorizedChain(op, sender) ==
    RevertChain([NoCall EXCEPT !.op = op, !.sender = sender],
                "OwnableUnauthorizedAccount")

Unauthorized(op, sender) ==
    /\ UnauthorizedChain(op, sender)
    /\ UNCHANGED <<aggregatorVars, otherVars>>

(***************************************************************************)
(* VeritasToken (OpenZeppelin ERC20 / ERC20Burnable)                       *)
(***************************************************************************)
(***************************************************************************)
(* Variant: the recipient's balance is written from the value alone, as a  *)
(* write based on a stale read of an empty balance would.                  *)
(***************************************************************************)
TokenTransferStale(bal, from, to, value) ==
    [bal EXCEPT ![from] = @ - value, ![to] = value]

TokenTransfer(bal, from, to, value) ==
    [bal EXCEPT ![from] = @ - value, ![to] = @ + value]

CanTransfer(bal, from, value) == bal[from] >= value

CanTransferFrom(bal, allow, from, spender, value) ==
    /\ <<from, spender>> \in DOMAIN allow
    /\ allow[<<from, spender>>] >= value
    /\ bal[from] >= value

SpendAllowance(allow, from, spender, value) ==
    [allow EXCEPT ![<<from, spender>>] = @ - value]

(***************************************************************************)
(* Variant: the burned tokens are credited to the deployer.                *)
(***************************************************************************)
TokenSeize(bal, from, value) ==
    [bal EXCEPT ![from] = @ - value, ![Owner] = @ + value]

TokenBurn(bal, from, value) == [bal EXCEPT ![from] = @ - value]

approve(owner, spender, value) ==
    /\ <<owner, spender>> \in AllowPairs
    /\ allowance' = [allowance EXCEPT ![<<owner, spender>>] = value]
    /\ lastCall' = [NoCall EXCEPT !.op = "approve", !.sender = owner,
                                  !.miner = spender, !.amount = value]
    /\ UNCHANGED <<balances, totalSupply, registryVars, coreVars, historyVars,
                   aggregatorVars, otherVars>>

(***************************************************************************)
(* MinerRegistry                                                           *)
(***************************************************************************)
(***************************************************************************)
(* Variant: a reputation equal to the floor is enough.                     *)
(***************************************************************************)
isMinerEligibleAtFloor(ms, m) ==
    /\ m \in DOMAIN ms
    /\ ms[m].isRegistered
    /\ ms[m].stakedAmount >= MinimumStake
    /\ ms[m].reputationScore >= EligibilityFloor

isMinerEligible(ms, m) ==
    /\ m \in DOMAIN ms
    /\ ms[m].isRegistered
    /\ ms[m].stakedAmount >= MinimumStake
    /\ ms[m].reputationScore > EligibilityFloor


(***************************************************************************)
(* Call records of the registry                                            *)
(***************************************************************************)
RegistryCall(op, sender, miner, amount, passed) ==
    [NoCall EXCEPT !.op = op, !.sender = sender, !.miner = miner,
                   !.amount = amount, !.passed = passed]

(***************************************************************************)
(* Variant: a new miner starts with a perfect reputation.                  *)
(***************************************************************************)
NewMinerPerfect(amount) ==
    [isRegistered |-> TRUE, stakedAmount |-> amount,
     reputationScore |-> MaxReputation, totalRequestsProcessed |-> 0,
     successfulJobs |-> 0, failedJobs |-> 0]

NewMiner(amount) ==
    [isRegistered |-> TRUE, stakedAmount |-> amount,
     reputationScore |-> InitialReputation, totalRequestsProcessed |-> 0,
     successfulJobs |-> 0, failedJobs |-> 0]

(***************************************************************************)
(* Variant: any amount is accepted as a stake.                             *)
(***************************************************************************)
AnyStake(amount) == amount >= 0

SufficientStake(amount) == amount >= MinimumStake

registerMiner(sender, amount) ==
    LET call == RegistryCall("registerMiner", sender, sender, amount, FALSE) IN
    IF ~SufficientStake(amount)
        THEN Revert(call, "Insufficient stake amount")
    ELSE IF miners[sender].isRegistered
        THEN Revert(call, "Already registered")
    ELSE IF ~CanTransferFrom(balances, allowance, sender, Registry, amount)
        THEN Revert(call, "ERC20: transferFrom failed")
    ELSE
        /\ balances' = TokenTransfer(balances, sender, Registry, amount)
        /\ allowance' = SpendAllowance(allowance, sender, Registry, amount)
        /\ miners' = [miners EXCEPT ![sender] = NewMiner(amount)]
        /\ minerList' = Append(minerList, sender)
        /\ lastCall' = call
        /\ UNCHANGED <<totalSupply, coreVars, historyVars, aggregatorVars, otherVars>>

(***************************************************************************)
(* Swap-and-pop removal of the first occurrence of m in the list.          *)
(***************************************************************************)
FirstIndex(list, m) ==
    IF \E i \in 1..Len(list) : list[i] = m
        THEN CHOOSE i \in 1..Len(list) :
                /\ list[i] = m
                /\ \A j \in 1..(i - 1) : list[j] # m
        ELSE 0

SwapAndPop(list, m) ==
    LET i == FirstIndex(list, m) IN
    IF i = 0 THEN list
    ELSE SubSeq([list EXCEPT ![i] = list[Len(list)]], 1, Len(list) - 1)

deregisterMiner(sender) ==
    LET call == RegistryCall("deregisterMiner", sender, sender,
                             miners[sender].stakedAmount, FALSE)
        amountToReturn == miners[sender].stakedAmount
    IN
    IF ~miners[sender].isRegistered
        THEN Revert(call, "Not a registered miner")
    ELSE IF ~CanTransfer(balances, Registry, amountToReturn)
        THEN Revert(call, "ERC20InsufficientBalance")
    ELSE
        /\ miners' = [miners EXCEPT ![sender] = NoMiner]
        /\ minerList' = SwapAndPop(minerList, sender)
        /\ balances' = TokenTransfer(balances, Registry, sender, amountToReturn)
        /\ lastCall' = call
        /\ UNCHANGED <<totalSupply, allowance, coreVars, historyVars,
                       aggregatorVars, otherVars>>

(***************************************************************************)
(* Variant: a passed job always adds to the reputation (no cap).           *)
(***************************************************************************)
UpdatedMinerUncapped(m, passedHoneypot) ==
    LET counted == [m EXCEPT !.totalRequestsProcessed = @ + 1] IN
    IF passedHoneypot
        THEN [counted EXCEPT
                !.successfulJobs = @ + 1,
                !.reputationScore = @ + ReputationGain]
        ELSE [counted EXCEPT
                !.failedJobs = @ + 1,
                !.reputationScore =
                    IF @ >= ReputationPenalty THEN @ - ReputationPenalty
                    ELSE 0]

(***************************************************************************)
(* Variant: a failed job costs as much as a passed job gains.              *)
(***************************************************************************)
UpdatedMinerSymmetric(m, passedHoneypot) ==
    LET counted == [m EXCEPT !.totalRequestsProcessed = @ + 1] IN
    IF passedHoneypot
        THEN [counted EXCEPT
                !.successfulJobs = @ + 1,
                !.reputationScore =
                    IF @ < MaxReputation THEN @ + ReputationGain ELSE @]
        ELSE [counted EXCEPT
                !.failedJobs = @ + 1,
                !.reputationScore =
                    IF @ >= ReputationGain THEN @ - ReputationGain ELSE 0]

(***************************************************************************)
(* The reputation transition of updateMinerPerformance.                    *)
(***************************************************************************)
UpdatedMiner(m, passedHoneypot) ==
    LET counted == [m EXCEPT !.totalRequestsProcessed = @ + 1] IN
    IF passedHoneypot
        THEN [counted EXCEPT
                !.successfulJobs = @ + 1,
                !.reputationScore =
                    IF @ < MaxReputation THEN @ + ReputationGain ELSE @]
        ELSE [counted EXCEPT
                !.failedJobs = @ + 1,
                !.reputationScore =
                    IF @ >= ReputationPenalty THEN @ - ReputationPenalty
                    ELSE 0]

PerformanceTransaction(sender, minerAddress, passedHoneypot, maxJobs) ==
    LET call == RegistryCall("updateMinerPerformance", sender, minerAddress,
                             0, passedHoneypot) IN
    /\ miners[minerAddress].totalRequestsProcessed < maxJobs
    /\ IF sender # Owner
           THEN UnauthorizedChain("updateMinerPerformance", sender)
       ELSE IF ~miners[minerAddress].isRegistered
           THEN RevertChain(call, "Miner not found")
       ELSE
           /\ miners' = [miners EXCEPT ![minerAddress] =
                            UpdatedMiner(miners[minerAddress], passedHoneypot)]
           /\ excluded' = [excluded EXCEPT ![minerAddress] =
                              miners'[minerAddress].reputationScore
                                  <= EligibilityFloor]
           /\ lastCall' = call
           /\ UNCHANGED <<tokenVars, minerList, coreVars, feeCollected,
                          paidToMiners, everFinalized>>

updateMinerPerformance(sender, minerAddress, passedHoneypot, maxJobs) ==
    /\ PerformanceTransaction(sender, minerAddress, passedHoneypot, maxJobs)
    /\ UNCHANGED <<aggregatorVars, otherVars>>

(***************************************************************************)
(* slashMiner: the stake is reduced, the tokens are burned from the        *)
(* registry's balance, and the miner is evicted when the rest is too low.  *)
(***************************************************************************)
(***************************************************************************)
(* Variant: the stake is cut but the miner is never evicted.               *)
(***************************************************************************)
SlashedMinerKept(m, amount) == [m EXCEPT !.stakedAmount = @ - amount]

SlashedMiner(m, amount) ==
    LET cut == [m EXCEPT !.stakedAmount = @ - amount] IN
    IF cut.stakedAmount < MinimumStake
        THEN [cut EXCEPT !.isRegistered = FALSE]
        ELSE cut

(***************************************************************************)
(* Variant: any amount may be slashed.                                     *)
(***************************************************************************)
CanSlashAny(m, amount) == m.stakedAmount >= 0

CanSlash(m, amount) == m.stakedAmount >= amount

slashMiner(sender, minerAddress, amount) ==
    LET call == RegistryCall("slashMiner", sender, minerAddress, amount,
                             FALSE) IN
    IF sender # Owner
        THEN Unauthorized("slashMiner", sender)
    ELSE IF ~miners[minerAddress].isRegistered
        THEN Revert(call, "Miner not found")
    ELSE IF ~CanSlash(miners[minerAddress], amount)
        THEN Revert(call, "Stake too low to slash")
    ELSE IF ~CanTransfer(balances, Registry, amount)
        THEN Revert(call, "ERC20InsufficientBalance")
    ELSE
        /\ miners' = [miners EXCEPT ![minerAddress] =
                         SlashedMiner(miners[minerAddress], amount)]
        /\ balances' = TokenBurn(balances, Registry, amount)
        /\ totalSupply' = totalSupply - amount
        /\ lastCall' = call
        /\ UNCHANGED <<allowance, minerList, coreVars, historyVars,
                       aggregatorVars, otherVars>>

(***************************************************************************)
(* VeritasCore                                                             *)
(***************************************************************************)
CoreCall(op, sender, id, isAI, conf, winners, amount) ==
    [NoCall EXCEPT !.op = op, !.sender = sender, !.id = id, !.isAI = isAI,
                   !.conf = conf, !.winners = winners, !.amount = amount]

(***************************************************************************)
(* Variant: the id counter is not advanced.                                *)
(***************************************************************************)
KeepId(n) == n

AdvanceId(n) == n + 1

submitRequest(sender) ==
    LET call == CoreCall("submitRequest", sender, nextRequestId, FALSE, 0,
                         <<>>, verificationFee)
        reqId == nextRequestId
    IN
    /\ nextRequestId \in RequestIds
    /\ IF ~CanTransferFrom(balances, allowance, sender, Core, verificationFee)
           THEN Revert(call, "ERC20: transferFrom failed")
       ELSE
           /\ balances' = TokenTransfer(balances, sender, Core, verificationFee)
           /\ allowance' = SpendAllowance(allowance, sender, Core,
                                          verificationFee)
           /\ nextRequestId' = AdvanceId(nextRequestId)
           /\ requests' = [requests EXCEPT ![reqId] =
                              [id |-> reqId, requester |-> sender,
                               isFinalized |-> FALSE, isAI |-> FALSE,
                               aiConfidence |-> 0]]
           /\ feeCollected' = [feeCollected EXCEPT ![reqId] = verificationFee]
           /\ lastCall' = call
           /\ pending' = pending \cup {reqId}
           /\ UNCHANGED <<totalSupply, registryVars, aggregator,
                          verificationFee, paidToMiners, everFinalized,
                          excluded,
                          aggregatorTx, handlers, otherVars>>

(***************************************************************************)
(* The payout of finalizeResult.                                           *)
(***************************************************************************)
MinerPool(fee) == (fee * MinerSharePercent) \div 100

(***************************************************************************)
(* Variant: the share is rounded up instead of down.                       *)
(***************************************************************************)
RewardPerMinerCeil(fee, n) == (MinerPool(fee) + n - 1) \div n

RewardPerMiner(fee, n) == MinerPool(fee) \div n

(***************************************************************************)
(* The loop over _winningMiners from index i on: an eligible entry is paid *)
(* rewardPerMiner out of the core's balance, an entry that is not eligible *)
(* is skipped; a transfer the core cannot cover reverts the transaction.   *)
(***************************************************************************)
RECURSIVE PayWinners(_, _, _, _, _)
PayWinners(bal, ms, winners, i, reward) ==
    IF i > Len(winners) THEN [ok |-> TRUE, bal |-> bal]
    ELSE IF isMinerEligible(ms, winners[i])
        THEN IF CanTransfer(bal, Core, reward)
                THEN PayWinners(TokenTransfer(bal, Core, winners[i], reward),
                                ms, winners, i + 1, reward)
                ELSE [ok |-> FALSE, bal |-> bal]
        ELSE PayWinners(bal, ms, winners, i + 1, reward)

(***************************************************************************)
(* Variant: the pool is split among the eligible entries only, so a        *)
(* skipped entry's share goes to the others.                               *)
(***************************************************************************)
DistributeRedistributed(bal, ms, winners, fee) ==
    LET eligible == {i \in 1..Len(winners) : isMinerEligible(ms, winners[i])} IN
    IF eligible # {}
        THEN PayWinners(bal, ms, winners, 1,
                        MinerPool(fee) \div Cardinality(eligible))
        ELSE [ok |-> TRUE, bal |-> bal]

(***************************************************************************)
(* Variant: every registered miner is paid, listed or not.                 *)
(***************************************************************************)
DistributeToRegistered(bal, ms, winners, fee) ==
    IF Len(winners) > 0
        THEN PayWinners(bal, ms, minerList, 1,
                        RewardPerMiner(fee, Len(winners)))
        ELSE [ok |-> TRUE, bal |-> bal]

Distribute(bal, ms, winners, fee) ==
    IF Len(winners) > 0
        THEN PayWinners(bal, ms, winners, 1, RewardPerMiner(fee, Len(winners)))
        ELSE [ok |-> TRUE, bal |-> bal]

(***************************************************************************)
(* Variant: every caller passes the aggregator check.                      *)
(***************************************************************************)
AnyCaller(sender) == sender \in Accounts

IsAggregator(sender) == sender = aggregator

NotFinalized(req) == ~req.isFinalized

FinalizeTransaction(sender, requestId, isAI, confidence, winningMiners) ==
    LET call == CoreCall("finalizeResult", sender, requestId, isAI, confidence,
                         <<>>, 0)
        paid == Distribute(balances, miners, winningMiners, verificationFee)
    IN
    IF ~IsAggregator(sender)
        THEN RevertChain(call, "Only aggregator can finalize")
    ELSE IF ~NotFinalized(requests[requestId])
        THEN RevertChain(call, "Request already finalized")
    ELSE IF ~paid.ok
        THEN RevertChain([call EXCEPT !.winners = winningMiners],
                         "ERC20InsufficientBalance")
    ELSE
        /\ requests' = [requests EXCEPT ![requestId] =
                           [@ EXCEPT !.isFinalized = TRUE, !.isAI = isAI,
                                     !.aiConfidence = confidence]]
        /\ balances' = paid.bal
        /\ paidToMiners' = [paidToMiners EXCEPT ![requestId] =
                               @ + (balances[Core] - paid.bal[Core])]
        /\ everFinalized' = everFinalized \cup {requestId}
        /\ lastCall' = [call EXCEPT !.winners = winningMiners]
        /\ UNCHANGED <<totalSupply, allowance, registryVars, aggregator,
                       verificationFee, nextRequestId, feeCollected,
                       excluded>>

finalizeResult(sender, requestId, isAI, confidence, winningMiners) ==
    /\ FinalizeTransaction(sender, requestId, isAI, confidence, winningMiners)
    /\ UNCHANGED <<aggregatorVars, otherVars>>

setAggregator(sender, newAggregator) ==
    LET call == [NoCall EXCEPT !.op = "setAggregator", !.sender = sender,
                               !.miner = newAggregator] IN
    IF sender # Owner
        THEN Unauthorized("setAggregator", sender)
    ELSE
        /\ aggregator' = newAggregator
        /\ lastCall' = call
        /\ UNCHANGED <<tokenVars, registryVars, verificationFee, requests,
                       nextRequestId, historyVars, aggregatorVars, otherVars>>

setFee(sender, newFee) ==
    LET call == [NoCall EXCEPT !.op = "setFee", !.sender = sender,
                               !.amount = newFee] IN
    IF sender # Owner
        THEN Unauthorized("setFee", sender)
    ELSE
        /\ verificationFee' = newFee
        /\ lastCall' = call
        /\ UNCHANGED <<tokenVars, registryVars, aggregator, requests,
                       nextRequestId, historyVars, aggregatorVars, otherVars>>

withdrawRevenue(sender) ==
    LET call == [NoCall EXCEPT !.op = "withdrawRevenue", !.sender = sender,
                               !.amount = balances[Core]] IN
    IF sender # Owner
        THEN Unauthorized("withdrawRevenue", sender)
    ELSE
        /\ balances' = TokenTransfer(balances, Core, Owner, balances[Core])
        /\ lastCall' = call
        /\ UNCHANGED <<totalSupply, allowance, registryVars, coreVars,
                       historyVars, aggregatorVars, otherVars>>

(***************************************************************************)
(* The off-chain aggregators.  A report is what one miner returns for a    *)
(* request: its honeypot accuracy and its vote on the user's image (TRUE   *)
(* is AI).  In aggregator.js and part_000 the accuracy is a percentage; in *)
(* the simulations it is honeypotScore / HONEYPOT_COUNT, kept here as the  *)
(* numerator honeypotScore, which leaves every comparison and every ratio  *)
(* of weights as the script computes it.                                   *)
(***************************************************************************)
Variants ==
    {"aggregator.js", "part_000", "simulation_v1", "simulation_v2", "part_001"}

PotentialMiners == <<"m1", "m2">>

ACCURACY_THRESHOLD == 70
PassMark == 70
VerdictMark == 50

COMMITTEE_SIZE(variant) == IF variant = "simulation_v1" THEN 3 ELSE 10

HONEYPOT_COUNT(variant) == IF variant = "simulation_v1" THEN 10 ELSE 4

(***************************************************************************)
(* accuracy > 0.6 with accuracy = honeypotScore / 10.                      *)
(***************************************************************************)
CommitteeFloor(variant) == (6 * HONEYPOT_COUNT(variant)) \div 10

(***************************************************************************)
(* The simulations draw honeypotScore in 0..HONEYPOT_COUNT and the vote    *)
(* with Math.random; accuracy is kept as the score, the numerator of       *)
(* honeypotScore / HONEYPOT_COUNT.                                         *)
(***************************************************************************)
AccuracyLevels(variant) ==
    IF variant = "simulation_v1" THEN {0, 6, 7, 10} ELSE {0, 1, 3, 4}

(***************************************************************************)
(* aggregator.js and part_000 hard-code the reports per miner.  In         *)
(* aggregator.js the last potential miner is the malicious one; the two    *)
(* registered miners are two of its three potential miners, the third      *)
(* having never registered (it fails isMinerEligible and is skipped).      *)
(* In part_000 the third potential miner always reports 30, is always      *)
(* rejected and adds nothing to any sum.                                   *)
(***************************************************************************)
Honest == [accuracy |-> 95, vote |-> TRUE]
Malicious == [accuracy |-> 30, vote |-> FALSE]
Excellent == [accuracy |-> 100, vote |-> TRUE]
Good == [accuracy |-> 80, vote |-> TRUE]

Reports(variant) ==
    CASE variant = "aggregator.js" ->
            {[m \in Miners |-> Honest],
             [m \in Miners |-> IF m = "m2" THEN Malicious ELSE Honest]}
      [] variant = "part_000" ->
            {[m \in Miners |-> IF m = "m1" THEN Excellent ELSE Good]}
      [] OTHER ->
            [Miners -> [accuracy : AccuracyLevels(variant), vote : BOOLEAN]]

Take(list, n) == SubSeq(list, 1, Min(n, Len(list)))

(***************************************************************************)
(* Array.prototype.sort((a, b) => b.accuracy - a.accuracy): stable, by     *)
(* descending accuracy.                                                    *)
(***************************************************************************)
(***************************************************************************)
(* Variant: a report moves ahead of the earlier reports that equal it.     *)
(***************************************************************************)
StaysBehindStrict(earlier, later) == earlier > later

(***************************************************************************)
(* The comparator (a, b) => b.accuracy - a.accuracy is not positive: the   *)
(* later report b stays behind a.                                          *)
(***************************************************************************)
StaysBehind(earlier, later) == later - earlier <= 0

RECURSIVE InsertByAccuracy(_, _, _)
InsertByAccuracy(sorted, m, reports) ==
    IF sorted = <<>> THEN <<m>>
    ELSE IF StaysBehind(reports[Head(sorted)].accuracy, reports[m].accuracy)
        THEN <<Head(sorted)>> \o InsertByAccuracy(Tail(sorted), m, reports)
        ELSE <<m>> \o sorted

RECURSIVE SortByAccuracy(_, _)
SortByAccuracy(list, reports) ==
    IF list = <<>> THEN <<>>
    ELSE InsertByAccuracy(
             SortByAccuracy(SubSeq(list, 1, Len(list) - 1), reports),
             list[Len(list)], reports)

ValidMiners(ms) ==
    SelectSeq(PotentialMiners, LAMBDA m : isMinerEligible(ms, m))

Committee(variant, ms, reports) ==
    CASE variant = "aggregator.js" ->
            SelectSeq(ValidMiners(ms),
                      LAMBDA m : reports[m].accuracy > PassMark)
      [] variant = "part_000" ->
            SelectSeq(PotentialMiners,
                      LAMBDA m : reports[m].accuracy >= ACCURACY_THRESHOLD)
      [] variant = "simulation_v1" ->
            SelectSeq(Take(SortByAccuracy(PotentialMiners, reports),
                           COMMITTEE_SIZE(variant)),
                      LAMBDA m : reports[m].accuracy > CommitteeFloor(variant))
      [] OTHER ->
            Take(SortByAccuracy(PotentialMiners, reports),
                 COMMITTEE_SIZE(variant))

RECURSIVE WeightOf(_, _, _)
WeightOf(committee, reports, vote) ==
    IF committee = <<>> THEN 0
    ELSE (IF reports[Head(committee)].vote = vote
              THEN reports[Head(committee)].accuracy ELSE 0)
         + WeightOf(Tail(committee), reports, vote)

(***************************************************************************)
(* finalScore of aggregator.js and part_000: the AI share of the weight.   *)
(***************************************************************************)
FinalScore(aiWeight, totalWeight) ==
    IF totalWeight > 0 THEN (aiWeight * 100) \div totalWeight ELSE 0

(***************************************************************************)
(* confidence of simulation_v1: the share of the heavier side.             *)
(***************************************************************************)
Confidence(aiWeight, realWeight) ==
    IF aiWeight + realWeight > 0
        THEN (Max(aiWeight, realWeight) * 100) \div (aiWeight + realWeight)
        ELSE 0

(***************************************************************************)
(* The verdict: aggregator.js and part_000 compare the score with 50, the  *)
(* simulations compare the two weights.                                    *)
(***************************************************************************)
VerdictTieIsAI(variant, ai, real, score) ==
    IF variant \in {"aggregator.js", "part_000"} THEN score >= VerdictMark
    ELSE ai >= real

Verdict(variant, ai, real, score) ==
    IF variant \in {"aggregator.js", "part_000"} THEN score > VerdictMark
    ELSE ai > real

(***************************************************************************)
(* What one run of a variant's consensus yields for the reports: the       *)
(* committee, the weights, the verdict and score, and whether a            *)
(* finalizeResult transaction is made.  aggregator.js returns early only   *)
(* when no potential miner is eligible; part_000 returns when the total    *)
(* weight is 0; simulation_v1 always calls; simulation_v2 and part_001     *)
(* compute Math.floor(NaN) when the total weight is 0, which cannot be     *)
(* encoded as a uint256, so the call throws before a transaction exists.   *)
(* simulation_v1 passes a fifth argument (rewardAmounts) to a version of   *)
(* the core that is not in the source tree; what its call stores is taken  *)
(* from finalizeResult of VeritasCore.sol.  The simulations run with 10    *)
(* and 20 miners; here every variant sees the two miners of the fixture,   *)
(* so the slice to COMMITTEE_SIZE never cuts.                              *)
(***************************************************************************)
Consensus(variant, ms, reports) ==
    LET committee == Committee(variant, ms, reports)
        ai == WeightOf(committee, reports, TRUE)
        real == WeightOf(committee, reports, FALSE)
        total == ai + real
        score == IF variant = "simulation_v1" THEN Confidence(ai, real)
                 ELSE FinalScore(ai, total)
    IN [variant |-> variant,
        id |-> 0,
        reports |-> reports,
        winners |-> committee,
        aiWeight |-> ai,
        realWeight |-> real,
        isAI |-> Verdict(variant, ai, real, score),
        score |-> score,
        send |-> CASE variant = "aggregator.js" -> Len(ValidMiners(ms)) # 0
                   [] variant = "simulation_v1" -> TRUE
                   [] OTHER -> total # 0]

(***************************************************************************)
(* The NewRequest handler up to the point where the transaction is built   *)
(* (in the simulations: the loop body after submitRequest).                *)
(***************************************************************************)
onNewRequest(variant, requestId, reports) ==
    LET out == [Consensus(variant, miners, reports) EXCEPT !.id = requestId]
    IN
    /\ requestId \in pending
    /\ ~aggregatorTx.send
    /\ pending' = pending \ {requestId}
    /\ aggregatorTx' = out
    /\ lastCall' = [NoCall EXCEPT !.op = "NewRequest", !.sender = Agg,
                                  !.id = requestId, !.isAI = out.isAI,
                                  !.conf = out.score, !.winners = out.winners,
                                  !.status = IF out.send THEN Ok
                                             ELSE "no transaction"]
    /\ UNCHANGED <<tokenVars, registryVars, coreVars, historyVars, handlers,
                   otherVars>>

(***************************************************************************)
(* The aggregator wallet's finalizeResult transaction reaches the core.    *)
(***************************************************************************)
sendFinalizeResult ==
    /\ aggregatorTx.send
    /\ FinalizeTransaction(Agg, aggregatorTx.id, aggregatorTx.isAI,
                           aggregatorTx.score, aggregatorTx.winners)
    /\ aggregatorTx' = [aggregatorTx EXCEPT !.send = FALSE]
    /\ UNCHANGED <<pending, handlers, otherVars>>

(***************************************************************************)
(* The event-driven scripts, aggregator.js and part_000, as they run:      *)
(* coreContract.on starts the async handler of every NewRequest event, and *)
(* the handlers of different requests interleave at each await.  A handler *)
(* reads the registry and computes the consensus (handlerStart), then      *)
(* sends finalizeResult and waits for it (handlerSend); an error is caught *)
(* and logged, and nothing is tried again.  One script runs at a time.     *)
(***************************************************************************)
EventVariants == {"aggregator.js", "part_000"}

handlerStart(variant, requestId, reports) ==
    LET out == [Consensus(variant, miners, reports) EXCEPT !.id = requestId]
    IN
    /\ requestId \in pending
    /\ handlers[requestId].state = "idle"
    /\ \A i \in RequestIds : handlers[i].tx.variant \in {"none", variant}
    /\ pending' = pending \ {requestId}
    /\ handlers' = [handlers EXCEPT ![requestId] =
                       [state |-> IF out.send THEN "sending" ELSE "returned",
                        tx |-> out]]
    /\ lastCall' = [NoCall EXCEPT !.op = "NewRequest", !.sender = Agg,
                                  !.id = requestId, !.isAI = out.isAI,
                                  !.conf = out.score, !.winners = out.winners,
                                  !.status = IF out.send THEN Ok
                                             ELSE "no transaction"]
    /\ UNCHANGED <<tokenVars, registryVars, coreVars, historyVars,
                   aggregatorTx, otherVars>>

handlerSend(requestId) ==
    LET tx == handlers[requestId].tx IN
    /\ handlers[requestId].state = "sending"
    /\ FinalizeTransaction(Agg, requestId, tx.isAI, tx.score, tx.winners)
    /\ handlers' = [handlers EXCEPT ![requestId].state =
                       IF lastCall'.status = Ok THEN "finalized"
                       ELSE "failed"]
    /\ UNCHANGED <<pending, aggregatorTx, otherVars>>

(***************************************************************************)
(* The loop "Update Reputation" that simulation_v1 and part_001 run after  *)
(* finalizeResult, one updateMinerPerformance transaction per report, in   *)
(* the order the sort left the reports in.  simulation_v1 catches a        *)
(* failed finalizeResult and goes on to the loop; in part_001 the failure  *)
(* ends main.  A reverting updateMinerPerformance ends main in both.       *)
(***************************************************************************)
LoopVariants == {"simulation_v1", "part_001"}

PassedHoneypot(variant, accuracy) ==
    IF variant = "simulation_v1" THEN accuracy > CommitteeFloor(variant)
    ELSE 4 * accuracy >= 3 * HONEYPOT_COUNT(variant)

FinalizeThrew(tx) ==
    tx.variant # "none" /\ ~tx.send /\ tx.id \notin everFinalized

ScriptEnded ==
    IF reputationLoop.crashed THEN TRUE
    ELSE aggregatorTx.variant = "part_001" /\ FinalizeThrew(aggregatorTx)

LoopOrder(tx) == SortByAccuracy(PotentialMiners, tx.reports)

LoopDone(tx) ==
    IF tx.variant \in LoopVariants
        THEN ~tx.send /\ reputationLoop.done[tx.id] = Len(LoopOrder(tx))
        ELSE TRUE

updateReputation(maxJobs) ==
    LET tx == aggregatorTx
        i == reputationLoop.done[tx.id] + 1
        m == LoopOrder(tx)[i]
    IN
    /\ tx.variant \in LoopVariants
    /\ ~tx.send
    /\ ~ScriptEnded
    /\ i <= Len(LoopOrder(tx))
    /\ PerformanceTransaction(Owner, m,
            PassedHoneypot(tx.variant, tx.reports[m].accuracy), maxJobs)
    /\ reputationLoop' =
          IF lastCall'.status = Ok
              THEN [reputationLoop EXCEPT !.done[tx.id] = i,
                                          !.applied[tx.id][m] = @ + 1]
              ELSE [reputationLoop EXCEPT !.crashed = TRUE]
    /\ UNCHANGED <<aggregatorVars, minerHistory, payout, selection, povVars>>

(***************************************************************************)
(* The next iteration of the simulations' request loop.                    *)
(***************************************************************************)
submitNext(maxBatches) ==
    /\ ~ScriptEnded
    /\ LoopDone(aggregatorTx)
    /\ pending = {}
    /\ nextRequestId < maxBatches
    /\ submitRequest(User)

processRequest(variant, requestId, reports) ==
    /\ ~ScriptEnded
    /\ LoopDone(aggregatorTx)
    /\ onNewRequest(variant, requestId, reports)

(***************************************************************************)
(* Inputs                                                                  *)
(***************************************************************************)
WinnerLists ==
    UNION {[1..n -> WinnerCandidates] : n \in 0..MaxWinners}

Verdicts == {<<TRUE, 75>>, <<FALSE, 150>>}

(***************************************************************************)
(* What the deployer keeps of the supply after funding the user and the    *)
(* miners.                                                                 *)
(***************************************************************************)
OwnerFunds == InitialSupply - UserFunds - StakeAmount * Cardinality(Miners)

(***************************************************************************)
(* The VERI contracts: VERIToken, ValidatorRegistry and                    *)
(* CertificationRegistry, deployed by their own owner as in the fixtures   *)
(* of their tests.                                                         *)
(***************************************************************************)
PovOwner == "povOwner"
Validator1 == "validator1"
Validator2 == "validator2"
Requester1 == "requester1"
OtherUser == "otherUser"
ValidatorRegistry == "validatorRegistry"
CertificationRegistry == "certificationRegistry"
DeadAddress == "0xdEaD"
ValidatorAccounts == {Validator1, Validator2}
VeriAccounts ==
    {PovOwner, Requester1, OtherUser, ValidatorRegistry,
     CertificationRegistry, DeadAddress} \cup ValidatorAccounts

VeriPairs ==
    {<<v, ValidatorRegistry>> : v \in ValidatorAccounts}
        \cup {<<Requester1, CertificationRegistry>>}

(* 1 ether = 10^18 wei *)
Ether(n) == WeiOf(n, 3)

VERI_INITIAL_SUPPLY == WeiOf(10, 4)
MIN_STAKE == WeiOf(100000, 3)
MIN_STAKE_DOUBLE == WeiMul(MIN_STAKE, 2)
UNBONDING_PERIOD == 604800
IMAGE_FEE == WeiOf(10000, 2)
VIDEO_FEE_PER_MINUTE == WeiOf(100000, 2)
PROTOCOL_FEE_BURN_PERCENTAGE == 20
RequesterBalance == Ether(100)

NoValidator ==
    [stake |-> WeiZero, lastEpochAccuracy |-> 0, unbondRequestTime |-> 0,
     isRegistered |-> FALSE]

Pending == "Pending"
CertifiedAuthentic == "CertifiedAuthentic"
CertifiedAI == "CertifiedAI"
CertificationStatus == <<Pending, CertifiedAuthentic, CertifiedAI>>

ContentHashes == {"hashA", "hashB"}

NoCertification ==
    [requester |-> ZeroAddr, contentType |-> "Image",
     submissionTimestamp |-> 0, status |-> Pending,
     finalValidator |-> ZeroAddr, finalizationTimestamp |-> 0]

DeployTime == 1

(***************************************************************************)
(* PovDeployed: the constructors of the three VERI contracts, then the     *)
(* transfers and approvals of the beforeEach blocks of their tests.        *)
(***************************************************************************)
PovDeployed ==
    /\ veriBalances = [a \in VeriAccounts |->
          CASE a = Validator1 -> MIN_STAKE_DOUBLE
            [] a = Validator2 -> MIN_STAKE
            [] a = Requester1 -> RequesterBalance
            [] a = PovOwner ->
                 WeiSub(VERI_INITIAL_SUPPLY,
                        WeiAdd(WeiMul(MIN_STAKE, 3), RequesterBalance))
            [] OTHER -> WeiZero]
    /\ veriAllowance = [p \in VeriPairs |->
          CASE p[1] = Validator1 -> MIN_STAKE_DOUBLE
            [] p[1] = Validator2 -> MIN_STAKE
            [] OTHER -> RequesterBalance]
    /\ validators = [v \in ValidatorAccounts |-> NoValidator]
    /\ validatorAddresses = <<>>
    /\ certifications = [h \in ContentHashes |-> NoCertification]
    /\ certifiedContentHashes = <<>>
    /\ blockTime = DeployTime
    /\ slashCount = 0

(***************************************************************************)
(* The scripts' bookkeeping before any request is processed.               *)
(***************************************************************************)
NoLoop ==
    [done |-> [i \in RequestIds |-> 0],
     applied |-> [i \in RequestIds |-> [m \in Miners |-> 0]],
     crashed |-> FALSE]

NoHistory == [m \in Miners |-> [passed |-> 0, failed |-> 0, rewards |-> 0]]

NoPayout == [committee |-> <<>>, rewardAmounts |-> <<>>]

NoSelection == [reports |-> <<>>, committee |-> <<>>, selected |-> FALSE]

ScriptsIdle ==
    /\ reputationLoop = NoLoop
    /\ minerHistory = NoHistory
    /\ payout = NoPayout
    /\ selection = NoSelection

(***************************************************************************)
(* Deployed: the three constructors, then the funding and the approvals   *)
(* of the test fixture (beforeEach of test/Veritas.test.js).               *)
(***************************************************************************)
Deployed ==
    /\ balances = [a \in Accounts |->
                      IF a = User THEN UserFunds
                      ELSE IF a \in Miners THEN StakeAmount
                      ELSE IF a = Owner THEN OwnerFunds
                      ELSE 0]
    /\ totalSupply = InitialSupply
    /\ allowance = [p \in AllowPairs |->
                      IF p[1] = User THEN UserApproval ELSE StakeAmount]
    /\ miners = [m \in Miners |-> NoMiner]
    /\ minerList = <<>>
    /\ aggregator = Agg
    /\ verificationFee = InitialFee
    /\ requests = [i \in RequestIds |-> NoRequest]
    /\ nextRequestId = 0
    /\ feeCollected = [i \in RequestIds |-> 0]
    /\ paidToMiners = [i \in RequestIds |-> 0]
    /\ everFinalized = {}
    /\ excluded = [m \in Miners |-> FALSE]
    /\ lastCall = NoCall
    /\ pending = {}
    /\ aggregatorTx = NoTx
    /\ handlers = [i \in RequestIds |-> NoHandler]
    /\ ScriptsIdle
    /\ PovDeployed

(***************************************************************************)
(* Init: Deployed, after every miner has staked StakeAmount with           *)
(* registerMiner, in the order m1, m2 (the nested beforeEach of the        *)
(* tests).  SpecRegistry starts from Deployed and reaches this registry.   *)
(***************************************************************************)
Registered ==
    /\ balances = [a \in Accounts |->
                      IF a = User THEN UserFunds
                      ELSE IF a = Registry
                               THEN StakeAmount * Cardinality(Miners)
                      ELSE IF a = Owner THEN OwnerFunds
                      ELSE 0]
    /\ totalSupply = InitialSupply
    /\ allowance = [p \in AllowPairs |->
                      IF p[1] = User THEN UserApproval ELSE 0]
    /\ miners = [m \in Miners |-> NewMiner(StakeAmount)]
    /\ minerList = <<"m1", "m2">>
    /\ aggregator = Agg
    /\ verificationFee = InitialFee
    /\ requests = [i \in RequestIds |-> NoRequest]
    /\ nextRequestId = 0
    /\ feeCollected = [i \in RequestIds |-> 0]
    /\ paidToMiners = [i \in RequestIds |-> 0]
    /\ everFinalized = {}
    /\ excluded = [m \in Miners |-> FALSE]
    /\ lastCall = RegistryCall("registerMiner", "m2", "m2", StakeAmount, FALSE)
    /\ pending = {}
    /\ aggregatorTx = NoTx
    /\ handlers = [i \in RequestIds |-> NoHandler]
    /\ reputationLoop = NoLoop
    /\ minerHistory = NoHistory
    /\ PovDeployed

Init == Registered /\ payout = NoPayout /\ selection = NoSelection

(***************************************************************************)
(* Spec: the core with the registry operations that change eligibility.    *)
(***************************************************************************)
Next ==
    \/ \E m \in Miners : slashMiner(Owner, m, SlashAmount)
    \/ nextRequestId \in FirstRequest /\ submitRequest(User)
    \/ \E s \in AggregatorCandidates, id \in FirstRequest, v \in Verdicts,
          w \in WinnerLists : finalizeResult(s, id, v[1], v[2], w)
    \/ \E s \in OwnerCallers, a \in AggregatorCandidates : setAggregator(s, a)
    \/ \E s \in OwnerCallers, f \in FeeValues : setFee(s, f)

Spec == Init /\ [][Next]_vars

(***************************************************************************)
(* SpecRegistry: staking, two miners.                                      *)
(***************************************************************************)
NextRegistry ==
    \/ \E m \in Miners : approve(m, Registry, StakeAmount)
    \/ \E m \in Miners, a \in RegisterAmounts : registerMiner(m, a)
    \/ \E m \in Miners : deregisterMiner(m)
    \/ \E s \in OwnerCallers, m \in Miners, a \in SlashAmounts :
          slashMiner(s, m, a)

SpecRegistry == Deployed /\ [][NextRegistry]_vars

(***************************************************************************)
(* SpecReputation: one miner, enough jobs to reach both ends of the        *)
(* reputation scale.                                                       *)
(***************************************************************************)
DeepMiner == "m1"

NextReputation ==
    \/ registerMiner(DeepMiner, StakeAmount)
    \/ deregisterMiner(DeepMiner)
    \/ \E s \in OwnerCallers, p \in BOOLEAN :
          updateMinerPerformance(s, DeepMiner, p, MaxJobsDeep)
    \/ slashMiner(Owner, DeepMiner, SlashAmount)

SpecReputation == Deployed /\ [][NextReputation]_vars

(***************************************************************************)
(* SpecStake: every registry operation on one miner, with the stakes and   *)
(* slashes around the minimum stake and a few recorded jobs.               *)
(***************************************************************************)
NextStake ==
    \/ approve(DeepMiner, Registry, StakeAmount)
    \/ \E a \in RegisterAmounts : registerMiner(DeepMiner, a)
    \/ deregisterMiner(DeepMiner)
    \/ \E s \in OwnerCallers, p \in BOOLEAN :
          updateMinerPerformance(s, DeepMiner, p, MaxJobs)
    \/ \E s \in OwnerCallers, a \in SlashAmounts :
          slashMiner(s, DeepMiner, a)

SpecStake == Deployed /\ [][NextStake]_vars

(***************************************************************************)
(* SpecRequests: several requests of one user, with the fee and the        *)
(* user's approval changing between them.                                  *)
(***************************************************************************)
RequestFees == {4, InitialFee}
RequestWinners == {<<DeepMiner>>}

NextRequests ==
    \/ approve(User, Core, UserApproval)
    \/ submitRequest(User)
    \/ \E f \in RequestFees : setFee(Owner, f)
    \/ \E id \in RequestIds, w \in RequestWinners :
          finalizeResult(Agg, id, TRUE, 75, w)

SpecRequests == Init /\ [][NextRequests]_vars

(***************************************************************************)
(* SpecRevenue: requests of one user at the fee of the deployment, each    *)
(* finalized after it was created, with the owner (or somebody else)       *)
(* calling withdrawRevenue at any moment.                                  *)
(***************************************************************************)
RevenueWinners == {<<>>, <<DeepMiner>>, <<"m1", "m2">>}

NextRevenue ==
    \/ approve(User, Core, UserApproval)
    \/ submitRequest(User)
    \/ \E id \in RequestIds, w \in RevenueWinners :
          /\ id < nextRequestId
          /\ finalizeResult(Agg, id, TRUE, 75, w)
    \/ \E s \in OwnerCallers : withdrawRevenue(s)

SpecRevenue == Init /\ [][NextRevenue]_vars

(***************************************************************************)
(* SpecHandlers: requests of one user handled by the event-driven          *)
(* aggregator while the owner may slash miners and withdraw the revenue.   *)
(* Every handler that can take a step eventually takes it: the event loop *)
(* of Node runs each callback that is ready.                               *)
(***************************************************************************)
MaxHandled == 2

NextHandlers ==
    \/ approve(User, Core, UserApproval)
    \/ nextRequestId < MaxHandled /\ submitRequest(User)
    \/ \E v \in EventVariants, id \in RequestIds :
          \E r \in Reports(v) : handlerStart(v, id, r)
    \/ \E id \in RequestIds : handlerSend(id)
    \/ \E m \in Miners : slashMiner(Owner, m, SlashAmount)
    \/ withdrawRevenue(Owner)

HandlersFair ==
    \A id \in RequestIds :
        /\ WF_vars(\E v \in EventVariants :
                      \E r \in Reports(v) : handlerStart(v, id, r))
        /\ WF_vars(handlerSend(id))

SpecHandlers == Init /\ [][NextHandlers]_vars /\ HandlersFair

(***************************************************************************)
(* SpecHandlersAlone: the same without the owner's transactions.           *)
(***************************************************************************)
NextHandlersAlone ==
    \/ approve(User, Core, UserApproval)
    \/ nextRequestId < MaxHandled /\ submitRequest(User)
    \/ \E v \in EventVariants, id \in RequestIds :
          \E r \in Reports(v) : handlerStart(v, id, r)
    \/ \E id \in RequestIds : handlerSend(id)

SpecHandlersAlone == Init /\ [][NextHandlersAlone]_vars /\ HandlersFair

(***************************************************************************)
(* SpecAggregator: one request handled by any of the aggregator variants,  *)
(* with slashing able to change who is eligible before and after the       *)
(* handler reads the registry.                                             *)
(***************************************************************************)
NextAggregator ==
    \/ nextRequestId \in FirstRequest /\ submitRequest(User)
    \/ \E m \in Miners : slashMiner(Owner, m, SlashAmount)
    \/ \E v \in Variants, id \in FirstRequest :
          \E r \in Reports(v) : onNewRequest(v, id, r)
    \/ sendFinalizeResult

SpecAggregator == Init /\ [][NextAggregator]_vars

(***************************************************************************)
(* Calls to the VERI contracts.                                            *)
(***************************************************************************)
veritasVars == <<tokenVars, registryVars, coreVars, historyVars,
                 aggregatorVars, reputationLoop, minerHistory, payout,
                 selection>>

PovCall(op, sender) ==
    [op |-> op, sender |-> sender, status |-> Ok, hash |-> "",
     fee |-> WeiZero, arg |-> "", leader |-> ZeroAddr, percentage |-> 0]

PovRevert(call, error) ==
    /\ lastCall' = [call EXCEPT !.status = error]
    /\ UNCHANGED <<veritasVars, povVars>>

(***************************************************************************)
(* VERIToken (OpenZeppelin ERC20): transfer and transferFrom revert when   *)
(* the balance or the allowance does not cover the value.                  *)
(***************************************************************************)
VeriCanTransfer(bal, from, value) == WeiLeq(value, bal[from])

VeriCanTransferFrom(bal, allow, from, spender, value) ==
    /\ <<from, spender>> \in DOMAIN allow
    /\ WeiLeq(value, allow[<<from, spender>>])
    /\ WeiLeq(value, bal[from])

VeriTransfer(bal, from, to, value) ==
    [a \in DOMAIN bal |->
        IF a = from /\ a = to THEN bal[a]
        ELSE IF a = from THEN WeiSub(bal[a], value)
        ELSE IF a = to THEN WeiAdd(bal[a], value)
        ELSE bal[a]]

VeriSpendAllowance(allow, from, spender, value) ==
    [allow EXCEPT ![<<from, spender>>] = WeiSub(@, value)]

(***************************************************************************)
(* Time passes between blocks (time.increase in the tests): by a second,   *)
(* MaxTicks times, and once by a second less than the unbonding period.    *)
(***************************************************************************)
MaxTicks == 2
LongStep == UNBONDING_PERIOD - 1
TimeSteps == {1, LongStep}
BlockTimes == {DeployTime + a + b * LongStep : a \in 0..MaxTicks, b \in 0..1}

increaseTime(seconds) ==
    /\ blockTime + seconds \in BlockTimes
    /\ blockTime' = blockTime + seconds
    /\ lastCall' = PovCall("increaseTime", PovOwner)
    /\ UNCHANGED <<veritasVars, slashCount,
                   veriBalances, veriAllowance, validators,
                   validatorAddresses, certifications, certifiedContentHashes>>

(***************************************************************************)
(* ValidatorRegistry                                                       *)
(***************************************************************************)
registerValidator(sender) ==
    LET call == PovCall("registerValidator", sender) IN
    IF validators[sender].isRegistered
        THEN PovRevert(call, "AlreadyRegistered")
    ELSE IF ~VeriCanTransferFrom(veriBalances, veriAllowance, sender,
                                 ValidatorRegistry, MIN_STAKE)
        THEN PovRevert(call, "ERC20: transferFrom failed")
    ELSE
        /\ veriBalances' = VeriTransfer(veriBalances, sender,
                                        ValidatorRegistry, MIN_STAKE)
        /\ veriAllowance' = VeriSpendAllowance(veriAllowance, sender,
                                               ValidatorRegistry, MIN_STAKE)
        /\ validators' = [validators EXCEPT ![sender] =
                             [stake |-> MIN_STAKE, lastEpochAccuracy |-> 0,
                              unbondRequestTime |-> 0, isRegistered |-> TRUE]]
        /\ validatorAddresses' = Append(validatorAddresses, sender)
        /\ lastCall' = [call EXCEPT !.fee = MIN_STAKE]
        /\ UNCHANGED <<veritasVars, slashCount,
                       certifications, certifiedContentHashes,
                       blockTime>>

addStake(sender, amount) ==
    LET call == [PovCall("addStake", sender) EXCEPT !.fee = amount] IN
    IF ~validators[sender].isRegistered
        THEN PovRevert(call, "NotRegistered")
    ELSE IF amount = WeiZero
        THEN PovRevert(call, "ZeroStake")
    ELSE IF ~VeriCanTransferFrom(veriBalances, veriAllowance, sender,
                                 ValidatorRegistry, amount)
        THEN PovRevert(call, "ERC20: transferFrom failed")
    ELSE
        /\ veriBalances' = VeriTransfer(veriBalances, sender,
                                        ValidatorRegistry, amount)
        /\ veriAllowance' = VeriSpendAllowance(veriAllowance, sender,
                                               ValidatorRegistry, amount)
        /\ validators' = [validators EXCEPT ![sender].stake =
                             WeiAdd(@, amount)]
        /\ lastCall' = call
        /\ UNCHANGED <<veritasVars, slashCount,
                       validatorAddresses, certifications,
                       certifiedContentHashes, blockTime>>

requestUnbond(sender) ==
    LET call == PovCall("requestUnbond", sender) IN
    IF ~validators[sender].isRegistered
        THEN PovRevert(call, "NotRegistered")
    ELSE IF validators[sender].unbondRequestTime # 0
        THEN PovRevert(call, "UnbondAlreadyPending")
    ELSE
        /\ validators' = [validators EXCEPT ![sender].unbondRequestTime =
                             blockTime]
        /\ lastCall' = call
        /\ UNCHANGED <<veritasVars, slashCount,
                       veriBalances, veriAllowance,
                       validatorAddresses, certifications,
                       certifiedContentHashes, blockTime>>

(***************************************************************************)
(* Variant: the unbonding period has to be exceeded.                       *)
(***************************************************************************)
UnbondingPeriodExceeded(now, unbondRequestTime) ==
    now > unbondRequestTime + UNBONDING_PERIOD

UnbondingPeriodPassed(now, unbondRequestTime) ==
    ~(now < unbondRequestTime + UNBONDING_PERIOD)

withdrawStake(sender) ==
    LET call == PovCall("withdrawStake", sender)
        validator == validators[sender]
        amountToWithdraw == validator.stake
    IN
    IF ~validator.isRegistered
        THEN PovRevert(call, "NotRegistered")
    ELSE IF validator.unbondRequestTime = 0
        THEN PovRevert(call, "UnbondNotPending")
    ELSE IF ~UnbondingPeriodPassed(blockTime, validator.unbondRequestTime)
        THEN PovRevert(call, "UnbondingPeriodNotPassed")
    ELSE IF ~VeriCanTransfer(veriBalances, ValidatorRegistry, amountToWithdraw)
        THEN PovRevert(call, "ERC20InsufficientBalance")
    ELSE
        /\ validators' = [validators EXCEPT ![sender] = NoValidator]
        /\ validatorAddresses' = SwapAndPop(validatorAddresses, sender)
        /\ veriBalances' = VeriTransfer(veriBalances, ValidatorRegistry,
                                        sender, amountToWithdraw)
        /\ lastCall' = [call EXCEPT !.fee = amountToWithdraw]
        /\ UNCHANGED <<veritasVars, slashCount,
                       veriAllowance, certifications,
                       certifiedContentHashes, blockTime>>

(***************************************************************************)
(* uint256 slashAmount = (v.stake * percentage) / 100.  Variant: the       *)
(* division rounds up.                                                     *)
(***************************************************************************)
SlashedStakeCeil(stake, percentage) ==
    WeiDiv(WeiAdd(WeiMul(stake, percentage), WeiOf(99, 0)), 100)

SlashedStake(stake, percentage) == WeiDiv(WeiMul(stake, percentage), 100)

slashValidator(sender, validator, percentage) ==
    LET call == [PovCall("slashValidator", sender) EXCEPT
                    !.leader = validator, !.percentage = percentage]
        slashAmount == SlashedStake(validators[validator].stake, percentage)
    IN
    IF sender # PovOwner
        THEN PovRevert(call, "OwnableUnauthorizedAccount")
    ELSE IF ~validators[validator].isRegistered
        THEN PovRevert(call, "NotRegistered")
    ELSE IF percentage > 100
        THEN PovRevert(call, "Slash percentage cannot exceed 100")
    ELSE IF ~VeriCanTransfer(veriBalances, ValidatorRegistry, slashAmount)
        THEN PovRevert(call, "ERC20InsufficientBalance")
    ELSE
        /\ validators' = [validators EXCEPT ![validator].stake =
                             WeiSub(@, slashAmount)]
        /\ veriBalances' = VeriTransfer(veriBalances, ValidatorRegistry,
                                        DeadAddress, slashAmount)
        /\ lastCall' = [call EXCEPT !.fee = slashAmount]
        /\ slashCount' = slashCount + 1
        /\ UNCHANGED <<veritasVars, veriAllowance, validatorAddresses,
                       certifications, certifiedContentHashes, blockTime>>

(***************************************************************************)
(* CertificationRegistry                                                   *)
(***************************************************************************)
Image == "Image"
Video == "Video"

RequiredFee(contentType, videoMinutes) ==
    IF contentType = Image THEN IMAGE_FEE
    ELSE WeiMul(VIDEO_FEE_PER_MINUTE, videoMinutes)

(***************************************************************************)
(* Variant: the burn is rounded up to a whole wei.                         *)
(***************************************************************************)
BurnAmountCeil(totalFee) ==
    WeiDiv(WeiAdd(WeiMul(totalFee, PROTOCOL_FEE_BURN_PERCENTAGE),
                  WeiOf(99, 0)), 100)

BurnAmount(totalFee) ==
    WeiDiv(WeiMul(totalFee, PROTOCOL_FEE_BURN_PERCENTAGE), 100)

(***************************************************************************)
(* distributeFees: the burn goes to the dead address, the rest to the      *)
(* ValidatorRegistry, both out of the CertificationRegistry's balance.     *)
(***************************************************************************)
distributeFees(bal, totalFee) ==
    LET burnAmount == BurnAmount(totalFee)
        validatorShare == WeiSub(totalFee, burnAmount)
        burned == VeriTransfer(bal, CertificationRegistry, DeadAddress,
                               burnAmount)
    IN VeriTransfer(burned, CertificationRegistry, ValidatorRegistry,
                    validatorShare)

submitCertification(sender, contentHash, contentType, videoMinutes, feeAmount) ==
    LET call == [PovCall("submitCertification", sender) EXCEPT
                    !.hash = contentHash, !.fee = feeAmount,
                    !.arg = contentType]
    IN
    IF certifications[contentHash].requester # ZeroAddr
        THEN PovRevert(call, "AlreadyCertified")
    ELSE IF WeiLess(feeAmount, RequiredFee(contentType, videoMinutes))
        THEN PovRevert(call, "FeeTooLow")
    ELSE IF ~VeriCanTransferFrom(veriBalances, veriAllowance, sender,
                                 CertificationRegistry, feeAmount)
        THEN PovRevert(call, "ERC20: transferFrom failed")
    ELSE
        /\ veriBalances' =
              distributeFees(VeriTransfer(veriBalances, sender,
                                          CertificationRegistry, feeAmount),
                             feeAmount)
        /\ veriAllowance' = VeriSpendAllowance(veriAllowance, sender,
                                               CertificationRegistry,
                                               feeAmount)
        /\ certifications' = [certifications EXCEPT ![contentHash] =
              [requester |-> sender, contentType |-> contentType,
               submissionTimestamp |-> blockTime, status |-> Pending,
               finalValidator |-> ZeroAddr, finalizationTimestamp |-> 0]]
        /\ certifiedContentHashes' = Append(certifiedContentHashes,
                                            contentHash)
        /\ lastCall' = call
        /\ UNCHANGED <<veritasVars, slashCount,
                       validators, validatorAddresses,
                       blockTime>>

(***************************************************************************)
(* Variant: any final status is accepted.                                  *)
(***************************************************************************)
AnyFinalStatus(finalStatus) ==
    finalStatus \in {Pending, CertifiedAuthentic, CertifiedAI}

ValidFinalStatus(finalStatus) ==
    finalStatus \in {CertifiedAuthentic, CertifiedAI}

finalizeCertification(sender, contentHash, finalStatus, leaderAddress) ==
    LET call == [PovCall("finalizeCertification", sender) EXCEPT
                    !.hash = contentHash, !.arg = finalStatus,
                    !.leader = leaderAddress]
        cert == certifications[contentHash]
    IN
    IF sender # PovOwner
        THEN PovRevert(call, "OwnableUnauthorizedAccount")
    ELSE IF cert.requester = ZeroAddr
        THEN PovRevert(call, "Certification not found")
    ELSE IF cert.status # Pending
        THEN PovRevert(call, "NotPending")
    ELSE IF ~ValidFinalStatus(finalStatus)
        THEN PovRevert(call, "InvalidStatus")
    ELSE
        /\ certifications' = [certifications EXCEPT ![contentHash] =
              [@ EXCEPT !.status = finalStatus,
                        !.finalValidator = leaderAddress,
                        !.finalizationTimestamp = blockTime]]
        /\ lastCall' = call
        /\ UNCHANGED <<veritasVars, slashCount,
                       veriBalances, veriAllowance, validators,
                       validatorAddresses, certifiedContentHashes, blockTime>>

(***************************************************************************)
(* SpecCertification: certifications of two content hashes submitted with  *)
(* fees around the required ones and finalized by the owner or attempted   *)
(* by others, with a validator that registers.                             *)
(***************************************************************************)
OneWei == WeiOf(1, 0)

Submissions ==
    {<<Image, 0, WeiSub(IMAGE_FEE, OneWei)>>,
     <<Image, 0, IMAGE_FEE>>,
     <<Image, 0, WeiAdd(IMAGE_FEE, WeiOf(3, 0))>>,
     <<Video, 1, VIDEO_FEE_PER_MINUTE>>,
     <<Video, 0, WeiOf(4, 0)>>}

Requesters == {Requester1, OtherUser}
FinalizeCallers == {PovOwner, Validator1}
Leaders == {Validator1, PovOwner}

NextCertification ==
    \/ \E s \in Requesters, h \in ContentHashes, sub \in Submissions :
          submitCertification(s, h, sub[1], sub[2], sub[3])
    \/ \E s \in FinalizeCallers, h \in ContentHashes,
          st \in {Pending, CertifiedAuthentic, CertifiedAI}, l \in Leaders :
          finalizeCertification(s, h, st, l)
    \/ registerValidator(Validator1)

SpecCertification == Init /\ [][NextCertification]_vars

(***************************************************************************)
(* SpecValidators: staking, unbonding and slashing of two validators       *)
(* while time passes.                                                      *)
(***************************************************************************)
SlashPercentage == 100
MaxSlashes == 2

NextValidators ==
    \/ \E v \in ValidatorAccounts : registerValidator(v)
    \/ addStake(Validator1, MIN_STAKE)
    \/ \E v \in ValidatorAccounts : requestUnbond(v)
    \/ \E v \in ValidatorAccounts : withdrawStake(v)
    \/ /\ slashCount < MaxSlashes
       /\ slashValidator(PovOwner, Validator2, SlashPercentage)
    \/ \E t \in TimeSteps : increaseTime(t)

SpecValidators == Init /\ [][NextValidators]_vars

(***************************************************************************)
(* SpecSlashing: the owner and a validator call slashValidator with        *)
(* percentages on both sides of 100, on validators that are registered or  *)
(* not; validator1 can add a stake that is not a multiple of 100 wei.      *)
(***************************************************************************)
SlashCallers == {PovOwner, Validator1}
SlashPercentages == {0, 33, 50, 100, 101}
AddedStake == WeiSub(MIN_STAKE, OneWei)

NextSlashing ==
    \/ \E v \in ValidatorAccounts : registerValidator(v)
    \/ addStake(Validator1, AddedStake)
    \/ /\ slashCount < MaxSlashes
       /\ \E s \in SlashCallers, v \in ValidatorAccounts,
             p \in SlashPercentages : slashValidator(s, v, p)

SpecSlashing == Init /\ [][NextSlashing]_vars

(***************************************************************************)
(* The proportional rewards of simulation_v1.js (lines 132-148).  A        *)
(* committee is given by the honeypot scores of its members, in the order  *)
(* the sort and the filter left them: at most COMMITTEE_SIZE scores above  *)
(* the floor, descending.  The pool is 8 VRT in wei.                       *)
(***************************************************************************)
ShareCommittees ==
    {c \in UNION {[1..n -> (CommitteeFloor("simulation_v1") + 1)
                             ..HONEYPOT_COUNT("simulation_v1")] :
                     n \in 1..COMMITTEE_SIZE("simulation_v1")} :
        \A i \in 1..(Len(c) - 1) : c[i] >= c[i + 1]}

TotalRewardPool == WeiOf((InitialFee * MinerSharePercent) \div 100, 3)

RECURSIVE SumScores(_)
SumScores(c) == IF c = <<>> THEN 0 ELSE Head(c) + SumScores(Tail(c))

(***************************************************************************)
(* pool * accuracy / sum of the accuracies, rounded down to a whole wei.   *)
(***************************************************************************)
ExactShare(c, i) == WeiDiv(WeiMul(TotalRewardPool, c[i]), SumScores(c))

(***************************************************************************)
(* The script computes (m.accuracy / totalAccuracySum) * 8.0 in IEEE 754   *)
(* doubles, with accuracy = score / 10 and totalAccuracySum the doubles    *)
(* added in committee order, prints the product with toFixed(18) (the      *)
(* exact value of the double, rounded half up at 18 decimals) and parses   *)
(* the digits as wei.  FloatError is what that result differs by, in wei,  *)
(* from ExactShare, for every member of every committee.                   *)
(***************************************************************************)
FloatError ==
    <<7>> :> <<0>> @@ <<8>> :> <<0>> @@ <<9>> :> <<0>> @@ <<10>> :> <<0>>
    @@ <<7, 7>> :> <<0, 0>> @@ <<8, 7>> :> <<-59, -385>>
    @@ <<8, 8>> :> <<0, 0>> @@ <<9, 7>> :> <<0, -444>>
    @@ <<9, 8>> :> <<53, -52>> @@ <<9, 9>> :> <<0, 0>>
    @@ <<10, 7>> :> <<157, -156>> @@ <<10, 8>> :> <<198, 247>>
    @@ <<10, 9>> :> <<-234, 235>> @@ <<10, 10>> :> <<0, 0>>
    @@ <<7, 7, 7>> :> <<297, 297, 297>> @@ <<8, 7, 7>> :> <<82, -484, -484>>
    @@ <<8, 8, 7>> :> <<367, 367, 155>>
    @@ <<8, 8, 8>> :> <<-147, -147, -147>>
    @@ <<9, 7, 7>> :> <<135, 155, 155>>
    @@ <<9, 8, 7>> :> <<-444, -147, -296>>
    @@ <<9, 8, 8>> :> <<-107, 53, 53>>
    @@ <<9, 9, 7>> :> <<-107, -107, -231>>
    @@ <<9, 9, 8>> :> <<-68, -68, 137>>
    @@ <<9, 9, 9>> :> <<-147, -147, -147>>
    @@ <<10, 7, 7>> :> <<148, 148, 148>>
    @@ <<10, 8, 7>> :> <<178, 53, -231>>
    @@ <<10, 8, 8>> :> <<-273, 137, 137>>
    @@ <<10, 9, 7>> :> <<615, 377, 342>>
    @@ <<10, 9, 8>> :> <<-164, -147, -131>>
    @@ <<10, 9, 9>> :> <<64, 191, 191>>
    @@ <<10, 10, 7>> :> <<-164, -164, -115>>
    @@ <<10, 10, 8>> :> <<64, 64, 317>> @@ <<10, 10, 9>> :> <<185, 185, 77>>
    @@ <<10, 10, 10>> :> <<-147, -147, -147>>

ShareInWei(c, i) ==
    LET err == FloatError[c][i] IN
    IF err >= 0 THEN WeiAdd(ExactShare(c, i), WeiOf(err, 0))
    ELSE WeiSub(ExactShare(c, i), WeiOf(-err, 0))

RECURSIVE SumWei(_)
SumWei(amounts) ==
    IF amounts = <<>> THEN WeiZero
    ELSE WeiAdd(Head(amounts), SumWei(Tail(amounts)))

(***************************************************************************)
(* One iteration of for(const m of committee): the member's share is       *)
(* pushed to rewardAmounts.                                                *)
(***************************************************************************)
pushShare ==
    LET i == Len(payout.rewardAmounts) + 1 IN
    /\ i <= Len(payout.committee)
    /\ payout' = [payout EXCEPT !.rewardAmounts =
                     Append(@, ShareInWei(payout.committee, i))]
    /\ UNCHANGED <<tokenVars, registryVars, coreVars, historyVars, lastCall,
                   aggregatorVars, reputationLoop, minerHistory, selection,
                   povVars>>

(***************************************************************************)
(* SpecShares: the reward loop of simulation_v1.js run on every committee  *)
(* the script can form.                                                    *)
(***************************************************************************)
InitShares ==
    /\ Registered
    /\ selection = NoSelection
    /\ payout \in {[committee |-> c, rewardAmounts |-> <<>>] :
                      c \in ShareCommittees}

NextShares == pushShare

SpecShares == InitShares /\ [][NextShares]_vars

(***************************************************************************)
(* SpecTopK: the sort and slice of the simulations on every list of up to  *)
(* MaxReports reports, more than the committee holds.  A report is named   *)
(* by its place in the input.                                              *)
(***************************************************************************)
MaxReports == 4
TopKSize == 2
TopKLevels == {1, 2, 3}

ReportLists ==
    UNION {[1..n -> [accuracy : TopKLevels]] : n \in 0..MaxReports}

TopK(reports, size) ==
    Take(SortByAccuracy([i \in 1..Len(reports) |-> i], reports), size)

selectTopK ==
    /\ ~selection.selected
    /\ selection' = [selection EXCEPT
                        !.committee = TopK(selection.reports, TopKSize),
                        !.selected = TRUE]
    /\ UNCHANGED <<tokenVars, registryVars, coreVars, historyVars, lastCall,
                   aggregatorVars, reputationLoop, minerHistory, payout,
                   povVars>>

InitTopK ==
    /\ Registered
    /\ payout = NoPayout
    /\ selection \in {[reports |-> r, committee |-> <<>>, selected |-> FALSE] :
                         r \in ReportLists}

NextTopK == selectTopK

SpecTopK == InitTopK /\ [][NextTopK]_vars

(***************************************************************************)
(* SpecBatch: a simulation processing requests one after the other, each   *)
(* with its finalizeResult and its reputation loop, while the owner can    *)
(* slash a miner or replace the aggregator between its transactions.       *)
(***************************************************************************)
MaxBatches == 2
BatchReports(v) ==
    {r \in Reports(v) :
        /\ \A m \in Miners : r[m].accuracy \in {1, 4, 6, 10}
        /\ r["m1"].vote}

NextBatch ==
    \/ approve(User, Core, InitialFee * MaxBatches)
    \/ submitNext(MaxBatches)
    \/ \E v \in LoopVariants, id \in RequestIds :
          \E r \in BatchReports(v) : processRequest(v, id, r)
    \/ sendFinalizeResult
    \/ updateReputation(MaxJobs)
    \/ slashMiner(Owner, DeepMiner, SlashAmount)
    \/ \E a \in AggregatorCandidates : setAggregator(Owner, a)

SpecBatch == Init /\ [][NextBatch]_vars

(***************************************************************************)
(* SpecConcurrent: the handlers of two requests run at the same time, so   *)
(* their finalizeResult transactions and the owner's updateMinerPerformance*)
(* transactions for the same miners are mined in any order.  minerHistory  *)
(* counts, per miner, the successful updateMinerPerformance calls by       *)
(* outcome and adds up the rewards the successful finalizeResult calls     *)
(* paid.                                                                   *)
(***************************************************************************)
MaxUpdates == 3
ConcurrentRequests == {0, 1}
ConcurrentWinners == {<<"m1">>, <<"m2">>, <<"m1", "m2">>, <<"m2", "m1">>}

RewardsPaid(ms, winners, fee, m) ==
    IF Len(winners) = 0 THEN 0
    ELSE RewardPerMiner(fee, Len(winners)) *
            Cardinality({i \in 1..Len(winners) :
                            winners[i] = m /\ isMinerEligible(ms, m)})

concurrentFinalize(requestId, winningMiners) ==
    /\ requestId < nextRequestId
    /\ FinalizeTransaction(Agg, requestId, TRUE, 75, winningMiners)
    /\ minerHistory' =
          IF lastCall'.status = Ok
              THEN [m \in Miners |->
                      [minerHistory[m] EXCEPT !.rewards =
                          @ + RewardsPaid(miners, winningMiners,
                                          verificationFee, m)]]
              ELSE minerHistory
    /\ UNCHANGED <<aggregatorVars, reputationLoop, payout, selection,
                   povVars>>

concurrentPerformance(sender, minerAddress, passedHoneypot) ==
    /\ PerformanceTransaction(sender, minerAddress, passedHoneypot, MaxUpdates)
    /\ minerHistory' =
          IF lastCall'.status # Ok THEN minerHistory
          ELSE IF passedHoneypot
              THEN [minerHistory EXCEPT ![minerAddress].passed = @ + 1]
              ELSE [minerHistory EXCEPT ![minerAddress].failed = @ + 1]
    /\ UNCHANGED <<aggregatorVars, reputationLoop, payout, selection,
                   povVars>>

NextConcurrent ==
    \/ approve(User, Core, InitialFee * Cardinality(ConcurrentRequests))
    \/ nextRequestId \in ConcurrentRequests /\ submitRequest(User)
    \/ \E id \in ConcurrentRequests, w \in ConcurrentWinners :
          concurrentFinalize(id, w)
    \/ \E s \in OwnerCallers, m \in Miners, p \in BOOLEAN :
          concurrentPerformance(s, m, p)

SpecConcurrent == Init /\ [][NextConcurrent]_vars

(***************************************************************************)
(* Reading a step: in every step that is not a stuttering step, lastCall'  *)
(* is the call the step executes, and the unprimed variables are the state *)
(* the call found.                                                         *)
(***************************************************************************)
Finalizes(call) == call.op = "finalizeResult"

FinalizeOk(call) == Finalizes(call) /\ call.status = Ok

Entries(winners, a) == {i \in 1..Len(winners) : winners[i] = a}

Distinct(winners) ==
    \A i, j \in 1..Len(winners) : winners[i] = winners[j] => i = j

EligibleEntries(ms, winners) ==
    {i \in 1..Len(winners) : isMinerEligible(ms, winners[i])}

Share(fee, n) == ((fee * 80) \div 100) \div n

(***************************************************************************)
(* C1: for every request id finalizeResult succeeds at most once: after    *)
(* a finalizeResult for the id has succeeded, every later finalizeResult   *)
(* call for it reverts, transfers no tokens and leaves the stored request, *)
(* its isAI and aiConfidence included, unchanged.                          *)
(***************************************************************************)
C1_FinalizeAtMostOnce ==
    [][ (Finalizes(lastCall') /\ lastCall'.id \in everFinalized) =>
              /\ lastCall'.status # Ok
              /\ balances' = balances
              /\ requests' = requests ]_vars

(***************************************************************************)
(* The part of C1 the code keeps: a finalizeResult call that finds         *)
(* isFinalized set reverts and changes nothing.                            *)
(***************************************************************************)
FinalizedRequestRejects ==
    [][ (Finalizes(lastCall') /\ requests[lastCall'.id].isFinalized) =>
              /\ lastCall'.status # Ok
              /\ lastCall'.sender = aggregator =>
                    lastCall'.status = "Request already finalized"
              /\ balances' = balances
              /\ requests' = requests ]_vars

(***************************************************************************)
(* C2: a finalizeResult call by any account other than the current         *)
(* aggregator reverts with 'Only aggregator can finalize' and changes      *)
(* neither the request records nor any token balance.                      *)
(***************************************************************************)
C2_OnlyAggregatorFinalizes ==
    [][ (Finalizes(lastCall') /\ lastCall'.sender # aggregator) =>
            /\ lastCall'.status = "Only aggregator can finalize"
            /\ requests' = requests
            /\ balances' = balances
            /\ totalSupply' = totalSupply ]_vars

C2_Witness ==
    /\ Finalizes(lastCall)
    /\ lastCall.status = "Only aggregator can finalize"
    /\ lastCall.sender = Agg
    /\ aggregator = User
    /\ ~requests[lastCall.id].isFinalized
    /\ requests[lastCall.id].requester # ZeroAddr

(***************************************************************************)
(* C3: for every finalized request that was submitted, the total paid to   *)
(* miners by finalizeResult is at most 80% of the fee collected for that   *)
(* request by submitRequest.                                               *)
(***************************************************************************)
C3_PayoutWithinShareOfCollectedFee ==
    \A id \in RequestIds :
        (id < nextRequestId /\ requests[id].isFinalized) =>
            paidToMiners[id] * 100 <= feeCollected[id] * 80

C6_OnlyListedWinnersArePaid ==
    [][ Finalizes(lastCall') =>
            /\ \A a \in Accounts :
                  (a # Core /\ Entries(lastCall'.winners, a) = {}) =>
                      balances'[a] = balances[a]
            /\ totalSupply' = totalSupply ]_vars

C6_Witness ==
    /\ FinalizeOk(lastCall)
    /\ paidToMiners[lastCall.id] > 0
    /\ \E m \in Miners :
          /\ isMinerEligible(miners, m)
          /\ Entries(lastCall.winners, m) = {}
          /\ balances[m] = 0

(***************************************************************************)
(* C7: for every miner and every sequence of updateMinerPerformance calls  *)
(* with arbitrary pass/fail values, 0 <= reputationScore <= 100 after      *)
(* every step.                                                             *)
(***************************************************************************)
C7_ReputationInRange ==
    \A m \in Miners :
        /\ miners[m].reputationScore >= 0
        /\ miners[m].reputationScore <= 100

C7_Witness ==
    /\ lastCall.op = "updateMinerPerformance"
    /\ lastCall.status = Ok
    /\ lastCall.passed
    /\ miners[lastCall.miner].reputationScore = 100
    /\ miners[lastCall.miner].successfulJobs
          > 50 + 5 * miners[lastCall.miner].failedJobs

(***************************************************************************)
(* C8: updateMinerPerformance(m, passed) by the owner on a registered      *)
(* miner succeeds and performs exactly this transition:                    *)
(* totalRequestsProcessed grows by 1; if passed, successfulJobs grows by 1 *)
(* and reputationScore becomes min(100, reputationScore + 1); if not,      *)
(* failedJobs grows by 1 and reputationScore becomes                       *)
(* max(0, reputationScore - 5); the other counter, the stake, the          *)
(* registration and every token balance are unchanged.                     *)
(***************************************************************************)
C8_PerformanceTransition ==
    [][ lastCall'.op = "updateMinerPerformance" =>
          LET m == lastCall'.miner
              old == miners[m]
              new == miners'[m]
          IN /\ (lastCall'.sender = Owner /\ old.isRegistered) =>
                    lastCall'.status = Ok
             /\ lastCall'.status = Ok =>
                  /\ old.isRegistered
                  /\ new.totalRequestsProcessed = old.totalRequestsProcessed + 1
                  /\ IF lastCall'.passed
                        THEN /\ new.successfulJobs = old.successfulJobs + 1
                             /\ new.failedJobs = old.failedJobs
                             /\ new.reputationScore =
                                   Min(100, old.reputationScore + 1)
                        ELSE /\ new.failedJobs = old.failedJobs + 1
                             /\ new.successfulJobs = old.successfulJobs
                             /\ new.reputationScore =
                                   Max(0, old.reputationScore - 5)
                  /\ new.isRegistered = old.isRegistered
                  /\ new.stakedAmount = old.stakedAmount
                  /\ \A o \in Miners \ {m} : miners'[o] = miners[o]
                  /\ balances' = balances
      ]_vars

C8_Witness ==
    /\ lastCall.op = "updateMinerPerformance"
    /\ lastCall.status = Ok
    /\ ~lastCall.passed
    /\ miners[lastCall.miner].reputationScore = 0
    /\ miners[lastCall.miner].successfulJobs > 0
    /\ 5 * miners[lastCall.miner].failedJobs
          > 50 + miners[lastCall.miner].successfulJobs

(***************************************************************************)
(* C9: in every state reachable through registerMiner, deregisterMiner,    *)
(* slashMiner and updateMinerPerformance, every miner with isRegistered    *)
(* has stakedAmount >= minimumStake.                                       *)
(***************************************************************************)
C9_RegisteredHasMinimumStake ==
    \A m \in Miners :
        miners[m].isRegistered => miners[m].stakedAmount >= MinimumStake

C9_Witness ==
    /\ lastCall.op = "slashMiner"
    /\ lastCall.status = Ok
    /\ miners[lastCall.miner].isRegistered
    /\ miners[lastCall.miner].stakedAmount = MinimumStake
    /\ miners[lastCall.miner].totalRequestsProcessed > 0

(***************************************************************************)
(* C10: after a successful slashMiner(m, amount) that leaves               *)
(* stakedAmount < minimumStake, m is not registered and not eligible, and  *)
(* the remaining stake is not transferred back to m: it stays recorded     *)
(* and stays in the registry.                                              *)
(***************************************************************************)
C10_SlashingEvicts ==
    [][ (/\ lastCall'.op = "slashMiner"
         /\ lastCall'.status = Ok
         /\ miners'[lastCall'.miner].stakedAmount < MinimumStake) =>
          LET m == lastCall'.miner IN
          /\ miners[m].isRegistered
          /\ miners'[m].stakedAmount = miners[m].stakedAmount - lastCall'.amount
          /\ ~miners'[m].isRegistered
          /\ ~isMinerEligible(miners', m)
          /\ balances'[m] = balances[m]
          /\ balances'[Registry] = balances[Registry] - lastCall'.amount
      ]_vars

C10_Witness ==
    /\ lastCall.op = "slashMiner"
    /\ lastCall.status = Ok
    /\ miners[lastCall.miner].stakedAmount < MinimumStake
    /\ miners[lastCall.miner].stakedAmount > 0
    /\ ~miners[lastCall.miner].isRegistered
    /\ ~isMinerEligible(miners, lastCall.miner)
    /\ miners[lastCall.miner].reputationScore > 20

(***************************************************************************)
(* C11: a successful slashMiner(m, amount) decreases m's stakedAmount, the *)
(* registry's token balance and the total supply each by exactly amount,   *)
(* and no account's token balance increases: the tokens are burned.        *)
(***************************************************************************)
C11_SlashBurns ==
    [][ (lastCall'.op = "slashMiner" /\ lastCall'.status = Ok) =>
          LET m == lastCall'.miner
              amount == lastCall'.amount
          IN /\ miners'[m].stakedAmount = miners[m].stakedAmount - amount
             /\ balances'[Registry] = balances[Registry] - amount
             /\ totalSupply' = totalSupply - amount
             /\ \A a \in Accounts : balances'[a] <= balances[a]
             /\ \A a \in Accounts \ {Registry} : balances'[a] = balances[a]
      ]_vars

C11_Witness ==
    /\ lastCall.op = "slashMiner"
    /\ lastCall.status = Ok
    /\ lastCall.amount = SlashAmount
    /\ miners[lastCall.miner].stakedAmount = StakeAmount - SlashAmount
    /\ totalSupply = InitialSupply - SlashAmount
    /\ balances[Registry] = StakeAmount - SlashAmount

(***************************************************************************)
(* C12: each of these registry calls fails and leaves the registry state   *)
(* and all token balances unchanged: registerMiner with an amount below    *)
(* minimumStake; registerMiner by a registered miner; deregisterMiner by   *)
(* an account that is not registered; slashMiner on an unregistered miner  *)
(* or with amount > stakedAmount; updateMinerPerformance on an             *)
(* unregistered miner.                                                     *)
(***************************************************************************)
C12_FailedRegistryCalls ==
    [][ LET c == lastCall' IN
        ( \/ /\ c.op = "registerMiner"
             /\ (c.amount < MinimumStake \/ miners[c.sender].isRegistered)
          \/ /\ c.op = "deregisterMiner"
             /\ ~miners[c.sender].isRegistered
          \/ /\ c.op = "slashMiner"
             /\ c.sender = Owner
             /\ \/ ~miners[c.miner].isRegistered
                \/ c.amount > miners[c.miner].stakedAmount
          \/ /\ c.op = "updateMinerPerformance"
             /\ c.sender = Owner
             /\ ~miners[c.miner].isRegistered )
        => /\ c.status # Ok
           /\ miners' = miners
           /\ minerList' = minerList
           /\ balances' = balances
           /\ totalSupply' = totalSupply
           /\ allowance' = allowance
      ]_vars

C12_Witness ==
    /\ lastCall.op = "slashMiner"
    /\ lastCall.status = "Stake too low to slash"
    /\ miners[lastCall.miner].isRegistered
    /\ miners[lastCall.miner].stakedAmount = MinimumStake
    /\ lastCall.amount > MinimumStake
    /\ totalSupply < InitialSupply

(***************************************************************************)
(* C13: every successful registerMiner(amount) moves exactly amount tokens *)
(* from the caller to the registry and leaves the caller registered with   *)
(* stakedAmount = amount, reputationScore = 50, all three job counters 0,  *)
(* and eligible; an account that holds the empty miner record (as every    *)
(* never-registered account does) is not eligible.                         *)
(***************************************************************************)
C13_RegistrationEffect ==
    [][ /\ (lastCall'.op = "registerMiner" /\ lastCall'.status = Ok) =>
              LET m == lastCall'.sender
                  a == lastCall'.amount
              IN /\ balances'[m] = balances[m] - a
                 /\ balances'[Registry] = balances[Registry] + a
                 /\ \A x \in Accounts \ {m, Registry} :
                        balances'[x] = balances[x]
                 /\ totalSupply' = totalSupply
                 /\ miners'[m].isRegistered
                 /\ miners'[m].stakedAmount = a
                 /\ miners'[m].reputationScore = 50
                 /\ miners'[m].totalRequestsProcessed = 0
                 /\ miners'[m].successfulJobs = 0
                 /\ miners'[m].failedJobs = 0
                 /\ isMinerEligible(miners', m)
        /\ \A x \in Accounts :
              (x \notin Miners \/ miners[x] = NoMiner) =>
                  ~isMinerEligible(miners, x)
        /\ \A x \in Accounts :
              (x \notin Miners \/ miners'[x] = NoMiner) =>
                  ~isMinerEligible(miners', x)
      ]_vars

C13_Witness ==
    /\ lastCall.op = "registerMiner"
    /\ lastCall.status = Ok
    /\ lastCall.amount = MinimumStake
    /\ miners[lastCall.sender].stakedAmount = MinimumStake
    /\ isMinerEligible(miners, lastCall.sender)
    /\ balances[lastCall.sender] = StakeAmount - MinimumStake
    /\ \E x \in Miners : miners[x] = NoMiner /\ ~isMinerEligible(miners, x)

(***************************************************************************)
(* The part of C14 that does not speak of minerList: deregisterMiner by a  *)
(* registered miner succeeds, moves exactly the current stakedAmount from  *)
(* the registry back to the miner, and leaves the miner not registered and *)
(* not eligible; directly after a successful registerMiner(a) by the same  *)
(* miner the amount moved back is a.                                       *)
(***************************************************************************)
DeregisterReturnsStake ==
    [][ (/\ lastCall'.op = "deregisterMiner"
         /\ miners[lastCall'.sender].isRegistered) =>
          LET m == lastCall'.sender
              stake == miners[m].stakedAmount
          IN /\ lastCall'.status = Ok
             /\ balances'[m] = balances[m] + stake
             /\ balances'[Registry] = balances[Registry] - stake
             /\ \A x \in Accounts \ {m, Registry} : balances'[x] = balances[x]
             /\ totalSupply' = totalSupply
             /\ ~miners'[m].isRegistered
             /\ ~isMinerEligible(miners', m)
             /\ (/\ lastCall.op = "registerMiner"
                 /\ lastCall.status = Ok
                 /\ lastCall.sender = m) => stake = lastCall.amount
      ]_vars

(***************************************************************************)
(* C14: deregisterMiner by a registered miner transfers exactly its        *)
(* current stakedAmount back to the miner and removes it from the active   *)
(* set; registerMiner(a) immediately followed by deregisterMiner restores  *)
(* the miner's and the registry's balances, and afterwards the miner is    *)
(* not registered, not eligible and absent from minerList.                 *)
(***************************************************************************)
C14_DeregisterRoundTrip ==
    [][ (/\ lastCall'.op = "deregisterMiner"
         /\ miners[lastCall'.sender].isRegistered) =>
          LET m == lastCall'.sender
              stake == miners[m].stakedAmount
          IN /\ lastCall'.status = Ok
             /\ balances'[m] = balances[m] + stake
             /\ balances'[Registry] = balances[Registry] - stake
             /\ ~miners'[m].isRegistered
             /\ ~isMinerEligible(miners', m)
             /\ (/\ lastCall.op = "registerMiner"
                 /\ lastCall.status = Ok
                 /\ lastCall.sender = m) => stake = lastCall.amount
             /\ \A i \in 1..Len(minerList') : minerList'[i] # m
      ]_vars

(***************************************************************************)
(* C15: in every reachable state and for every account m,                  *)
(* isMinerEligible(m) is true if and only if m is registered and           *)
(* stakedAmount >= minimumStake and reputationScore > 20.                  *)
(***************************************************************************)
C15_EligibilityDefinition ==
    \A a \in Accounts :
        isMinerEligible(miners, a) <=>
            /\ a \in Miners
            /\ miners[a].isRegistered
            /\ miners[a].stakedAmount >= MinimumStake
            /\ miners[a].reputationScore > 20

C15_Witness ==
    \E m \in Miners :
        /\ miners[m].isRegistered
        /\ miners[m].stakedAmount >= MinimumStake
        /\ miners[m].reputationScore = 20
        /\ ~isMinerEligible(miners, m)

(***************************************************************************)
(* C16: request ids are unique and assigned monotonically: the k-th        *)
(* successful submitRequest creates request id k-1, not finalized, and     *)
(* moves exactly verificationFee tokens from the requester to VeritasCore; *)
(* a submitRequest whose fee transfer fails creates no request and does    *)
(* not advance nextRequestId.                                              *)
(***************************************************************************)
Created(reqs) == {i \in RequestIds : reqs[i].requester # ZeroAddr}

C16_RequestIdsMonotonic ==
    [][ lastCall'.op = "submitRequest" =>
          LET sender == lastCall'.sender
              fee == verificationFee
              paidFor == /\ allowance[<<sender, Core>>] >= fee
                         /\ balances[sender] >= fee
          IN /\ Created(requests) = {i \in RequestIds : i < nextRequestId}
             /\ paidFor =>
                  /\ lastCall'.status = Ok
                  /\ lastCall'.id = nextRequestId
                  /\ nextRequestId' = nextRequestId + 1
                  /\ Cardinality(Created(requests')) = Cardinality(Created(requests)) + 1
                  /\ requests'[nextRequestId] =
                        [id |-> nextRequestId, requester |-> sender,
                         isFinalized |-> FALSE, isAI |-> FALSE,
                         aiConfidence |-> 0]
                  /\ \A i \in RequestIds \ {nextRequestId} :
                        requests'[i] = requests[i]
                  /\ balances'[sender] = balances[sender] - fee
                  /\ balances'[Core] = balances[Core] + fee
                  /\ \A a \in Accounts \ {sender, Core} :
                        balances'[a] = balances[a]
             /\ ~paidFor =>
                  /\ lastCall'.status # Ok
                  /\ requests' = requests
                  /\ nextRequestId' = nextRequestId
                  /\ balances' = balances
      ]_vars

C16_Witness ==
    /\ lastCall.op = "submitRequest"
    /\ lastCall.status = Ok
    /\ lastCall.id = 2
    /\ nextRequestId = 3
    /\ requests[2].id = 2
    /\ requests[2].requester = User
    /\ ~requests[2].isFinalized
    /\ requests[0].isFinalized
    /\ requests[1].id = 1

(***************************************************************************)
(* A step in which the transaction built by the aggregator reaches         *)
(* finalizeResult: aggregatorTx holds the weights it was computed from,    *)
(* lastCall' the arguments the contract received.                          *)
(***************************************************************************)
TotalWeight(tx) == tx.aiWeight + tx.realWeight

(***************************************************************************)
(* C17: in every aggregator variant, for every committee with nonzero      *)
(* total weight, the verdict sent to finalizeResult is AI exactly when     *)
(* ai_weight > real_weight; on a tie the verdict is Real.                  *)
(***************************************************************************)
C17_VerdictIsHeavierSide ==
    [][ (/\ aggregatorTx.send
         /\ lastCall'.op = "finalizeResult"
         /\ TotalWeight(aggregatorTx) > 0) =>
          lastCall'.isAI = (aggregatorTx.aiWeight > aggregatorTx.realWeight)
      ]_vars

C17_Witness ==
    /\ FinalizeOk(lastCall)
    /\ lastCall.sender = Agg
    /\ aggregatorTx.id = lastCall.id
    /\ aggregatorTx.aiWeight = aggregatorTx.realWeight
    /\ aggregatorTx.aiWeight > 0
    /\ Len(aggregatorTx.winners) = 2
    /\ requests[lastCall.id].isFinalized
    /\ ~requests[lastCall.id].isAI

(***************************************************************************)
(* The verdict rules the variants do follow: the simulations compare the   *)
(* weights; aggregator.js and part_000 compare the floored AI share of the *)
(* weight with 50.                                                         *)
(***************************************************************************)
VerdictRules ==
    [][ (/\ aggregatorTx.send
         /\ lastCall'.op = "finalizeResult"
         /\ TotalWeight(aggregatorTx) > 0) =>
          LET ai == aggregatorTx.aiWeight
              real == aggregatorTx.realWeight
          IN IF aggregatorTx.variant \in {"aggregator.js", "part_000"}
                THEN lastCall'.isAI = ((100 * ai) \div (ai + real) > 50)
                ELSE lastCall'.isAI = (ai > real)
      ]_vars

(***************************************************************************)
(* C18: the confidence sent to finalizeResult equals                       *)
(* floor(100 * max(ai_weight, real_weight) / (ai_weight + real_weight)),   *)
(* so it is at least 50 whenever a verdict is emitted and equals 50 on a   *)
(* tie.                                                                    *)
(***************************************************************************)
C18_ConfidenceOfWinningSide ==
    [][ (aggregatorTx.send /\ lastCall'.op = "finalizeResult") =>
          LET ai == aggregatorTx.aiWeight
              real == aggregatorTx.realWeight
          IN /\ ai + real > 0 =>
                    lastCall'.conf = (100 * Max(ai, real)) \div (ai + real)
             /\ lastCall'.conf >= 50
             /\ ai = real => lastCall'.conf = 50
      ]_vars

(***************************************************************************)
(* The confidence rules the variants do follow: simulation_v1 sends the    *)
(* share of the heavier side (0 for an empty committee); every other       *)
(* variant sends the AI share.                                             *)
(***************************************************************************)
ConfidenceRules ==
    [][ (aggregatorTx.send /\ lastCall'.op = "finalizeResult") =>
          LET ai == aggregatorTx.aiWeight
              real == aggregatorTx.realWeight
          IN /\ lastCall'.conf \in 0..100
             /\ IF ai + real = 0 THEN lastCall'.conf = 0
                ELSE IF aggregatorTx.variant = "simulation_v1"
                    THEN lastCall'.conf =
                            (100 * Max(ai, real)) \div (ai + real)
                    ELSE lastCall'.conf = (100 * ai) \div (ai + real)
      ]_vars

(***************************************************************************)
(* C19: for every finalized request, the aiConfidence stored in            *)
(* VeritasCore is an integer in [0, 100], for every successful             *)
(* finalizeResult call.                                                    *)
(***************************************************************************)
C19_StoredConfidenceInRange ==
    \A id \in RequestIds :
        requests[id].isFinalized =>
            /\ requests[id].aiConfidence >= 0
            /\ requests[id].aiConfidence <= 100

(***************************************************************************)
(* C20: when the committee is empty or its total weight is zero, the       *)
(* aggregator does not call finalizeResult: no verdict is stored and the   *)
(* request stays not finalized.                                            *)
(***************************************************************************)
C20_NoConsensusNoFinalize ==
    [][ /\ (aggregatorTx.send /\ lastCall'.op = "finalizeResult") =>
              /\ aggregatorTx.winners # <<>>
              /\ TotalWeight(aggregatorTx) > 0
        /\ (/\ lastCall'.op = "NewRequest"
            /\ \/ aggregatorTx'.winners = <<>>
               \/ TotalWeight(aggregatorTx') = 0) =>
              /\ lastCall'.status = "no transaction"
              /\ requests' = requests
      ]_vars

(***************************************************************************)
(* When a transaction is made: part_000, simulation_v2 and part_001 make   *)
(* none when the total weight is zero; aggregator.js makes none only when  *)
(* no potential miner is eligible; simulation_v1 always makes one.         *)
(***************************************************************************)
TransactionMade ==
    [][ lastCall'.op = "NewRequest" =>
          LET tx == aggregatorTx' IN
          /\ requests' = requests
          /\ tx.variant \in {"part_000", "simulation_v2", "part_001"} =>
                (tx.send <=> TotalWeight(tx) > 0)
          /\ tx.variant = "aggregator.js" =>
                (tx.send <=> \E m \in Miners : isMinerEligible(miners, m))
          /\ tx.variant = "simulation_v1" => tx.send
      ]_vars

(***************************************************************************)
(* C21: finalizing a batch is all-or-nothing.  Reputation changes only     *)
(* for a finalized request, and a finalized batch has every one of its     *)
(* reputation updates committed with it: no state has a reputation update  *)
(* for a request that is not finalized, and no state has the payouts of a  *)
(* batch committed while some of its reputation updates are not.           *)
(***************************************************************************)
C21_FinalizationAllOrNothing ==
    \A id \in RequestIds :
        /\ (\E m \in Miners : reputationLoop.applied[id][m] > 0) =>
               id \in everFinalized
        /\ id \in everFinalized =>
               \A m \in Miners :
                   miners[m].isRegistered =>
                       reputationLoop.applied[id][m] = 1

(***************************************************************************)
(* What the scripts do: the updates of a batch are transactions of their   *)
(* own that follow finalizeResult, at most one per miner and batch, and    *)
(* only part_001 makes them depend on finalizeResult having succeeded.     *)
(***************************************************************************)
ReputationLoopRules ==
    [][ \A id \in RequestIds, m \in Miners :
          reputationLoop'.applied[id][m] # reputationLoop.applied[id][m] =>
              /\ reputationLoop'.applied[id][m] = 1
              /\ aggregatorTx.id = id
              /\ \/ id \in everFinalized
                 \/ aggregatorTx.variant = "simulation_v1"
      ]_vars

(***************************************************************************)
(* C28: once the loop of a batch is through, every registered miner has    *)
(* had updateMinerPerformance applied exactly once for each finalized      *)
(* request and not at all for a request that is not finalized, so its      *)
(* totalRequestsProcessed is the number of finalized batches.              *)
(***************************************************************************)
C28_ReputationOncePerFinalizedBatch ==
    (aggregatorTx.variant \in LoopVariants /\ LoopDone(aggregatorTx)) =>
        \A m \in Miners :
            miners[m].isRegistered =>
                /\ \A id \in RequestIds :
                       reputationLoop.applied[id][m] =
                           IF id \in everFinalized THEN 1 ELSE 0
                /\ miners[m].totalRequestsProcessed =
                       Cardinality(everFinalized)

(***************************************************************************)
(* C22: no update is lost.  Whatever the order of the finalizeResult and   *)
(* updateMinerPerformance transactions of requests processed at the same   *)
(* time, a miner's totalRequestsProcessed has grown by the number of       *)
(* successful updateMinerPerformance calls for it, successfulJobs by the   *)
(* passed ones, failedJobs by the failed ones, and its balance by the sum  *)
(* of the rewards paid to it.                                              *)
(***************************************************************************)
C22_NoLostUpdate ==
    \A m \in Miners :
        LET h == minerHistory[m] IN
        /\ miners[m].totalRequestsProcessed = h.passed + h.failed
        /\ miners[m].successfulJobs = h.passed
        /\ miners[m].failedJobs = h.failed
        /\ balances[m] = h.rewards

(***************************************************************************)
(* Both requests are finalized, each paid the same miner, and that miner   *)
(* has a passed and a failed job recorded.                                 *)
(***************************************************************************)
C22_Witness ==
    \E m \in Miners :
        /\ everFinalized = {0, 1}
        /\ paidToMiners[0] > 0
        /\ paidToMiners[1] > 0
        /\ minerHistory[m].rewards = paidToMiners[0] + paidToMiners[1]
        /\ minerHistory[m].passed > 0
        /\ minerHistory[m].failed > 0

(***************************************************************************)
(* C23: the proportional share of a committee member is pool * accuracy /  *)
(* (sum of the committee's accuracies) rounded down to a whole number of   *)
(* smallest units, and the shares of a committee never add up to more      *)
(* than the pool.                                                          *)
(***************************************************************************)
C23_ProportionalShareRoundedDown ==
    /\ \A i \in 1..Len(payout.rewardAmounts) :
           payout.rewardAmounts[i] = ExactShare(payout.committee, i)
    /\ WeiLeq(SumWei(payout.rewardAmounts), TotalRewardPool)

(***************************************************************************)
(* What the script's shares are: within 1000 wei of the exact quotient on  *)
(* either side, and equal to it for a committee of one and for a           *)
(* committee of two equal scores.                                          *)
(***************************************************************************)
ShareRules ==
    \A i \in 1..Len(payout.rewardAmounts) :
        LET c == payout.committee
            exact == ExactShare(c, i)
            paid == payout.rewardAmounts[i]
        IN
        /\ WeiLess(paid, WeiAdd(exact, WeiOf(1000, 0)))
        /\ WeiLess(exact, WeiAdd(paid, WeiOf(1000, 0)))
        /\ (Len(c) = 1 \/ (Len(c) = 2 /\ c[1] = c[2])) => paid = exact

(***************************************************************************)
(* C24: withdrawStake succeeds only for a registered validator with a      *)
(* pending requestUnbond and only once at least UNBONDING_PERIOD (7 days)  *)
(* has passed since the request; earlier it reverts with                   *)
(* UnbondingPeriodNotPassed, without a request with UnbondNotPending, and  *)
(* a revert changes nothing.  On success the whole stake is returned to    *)
(* the validator, its stake is 0, it is no longer registered and it is     *)
(* removed from validatorAddresses.                                        *)
(***************************************************************************)
C24_WithdrawAfterUnbonding ==
    [][ lastCall'.op = "withdrawStake" =>
          LET v == lastCall'.sender
              old == validators[v]
              elapsed == blockTime - old.unbondRequestTime
          IN
          /\ lastCall'.status = Ok <=>
                /\ old.isRegistered
                /\ old.unbondRequestTime # 0
                /\ elapsed >= UNBONDING_PERIOD
          /\ (old.isRegistered /\ old.unbondRequestTime = 0) =>
                lastCall'.status = "UnbondNotPending"
          /\ (/\ old.isRegistered
              /\ old.unbondRequestTime # 0
              /\ elapsed < UNBONDING_PERIOD) =>
                lastCall'.status = "UnbondingPeriodNotPassed"
          /\ lastCall'.status # Ok => povVars' = povVars
          /\ lastCall'.status = Ok =>
                /\ veriBalances'[v] = WeiAdd(veriBalances[v], old.stake)
                /\ veriBalances'[ValidatorRegistry] =
                      WeiSub(veriBalances[ValidatorRegistry], old.stake)
                /\ validators'[v].stake = WeiZero
                /\ ~validators'[v].isRegistered
                /\ \A i \in 1..Len(validatorAddresses') :
                      validatorAddresses'[i] # v
                /\ \A w \in ValidatorAccounts \ {v} :
                      /\ validators'[w] = validators[w]
                      /\ (\E i \in 1..Len(validatorAddresses') :
                             validatorAddresses'[i] = w)
                         <=> (\E i \in 1..Len(validatorAddresses) :
                                 validatorAddresses[i] = w)
      ]_vars

(***************************************************************************)
(* A validator that requested to unbond exactly UNBONDING_PERIOD ago has   *)
(* withdrawn a stake that had been added to, while the other validator is  *)
(* still registered.                                                       *)
(***************************************************************************)
C24_Witness ==
    /\ lastCall.op = "withdrawStake"
    /\ lastCall.status = Ok
    /\ lastCall.sender = Validator1
    /\ lastCall.fee = MIN_STAKE_DOUBLE
    /\ veriBalances[Validator1] = MIN_STAKE_DOUBLE
    /\ validatorAddresses = <<Validator2>>
    /\ blockTime = DeployTime + UNBONDING_PERIOD

C26_FeeSplit ==
    [][ (lastCall'.op = "submitCertification" /\ lastCall'.status = Ok) =>
          LET f == lastCall'.fee
              burn == WeiDiv(WeiMul(f, 20), 100)
              requester == lastCall'.sender
          IN
          /\ veriBalances'[DeadAddress] =
                WeiAdd(veriBalances[DeadAddress], burn)
          /\ veriBalances'[ValidatorRegistry] =
                WeiAdd(veriBalances[ValidatorRegistry], WeiSub(f, burn))
          /\ WeiAdd(veriBalances'[requester], f) = veriBalances[requester]
          /\ veriBalances'[CertificationRegistry] =
                veriBalances[CertificationRegistry]
          /\ \A a \in VeriAccounts \ {DeadAddress, ValidatorRegistry,
                                      requester} :
                veriBalances'[a] = veriBalances[a]
      ]_vars

(***************************************************************************)
(* A submission with a fee of 0.01 VERI and 3 wei has been accepted: 20%   *)
(* of it is not a whole number of wei, and the dead address holds the      *)
(* 2000000000000000 wei of the rounded-down burn.                          *)
(***************************************************************************)
C26_Witness ==
    /\ lastCall.op = "submitCertification"
    /\ lastCall.status = Ok
    /\ lastCall.fee = WeiAdd(IMAGE_FEE, WeiOf(3, 0))
    /\ veriBalances[DeadAddress] = WeiOf(2000, 2)
    /\ veriBalances[ValidatorRegistry] = WeiAdd(WeiOf(8000, 2), WeiOf(3, 0))

(***************************************************************************)
(* C27: only the elected epoch leader, a registered validator, can         *)
(* finalize a certification: a finalizeCertification call that succeeds    *)
(* was sent by the leader it records, and a call from anyone else is       *)
(* rejected and leaves the certification Pending.                          *)
(***************************************************************************)
C27_OnlyLeaderFinalizes ==
    [][ lastCall'.op = "finalizeCertification" =>
          LET isLeader ==
                  /\ lastCall'.sender \in ValidatorAccounts
                  /\ validators[lastCall'.sender].isRegistered
                  /\ lastCall'.sender = lastCall'.leader
          IN
          ~isLeader =>
              /\ lastCall'.status # Ok
              /\ certifications' = certifications
      ]_vars

(***************************************************************************)
(* Who finalizes: the owner of the CertificationRegistry and nobody else,  *)
(* whoever is named as the leader; a registered validator's call reverts.  *)
(***************************************************************************)
FinalizationIsOwnerOnly ==
    [][ lastCall'.op = "finalizeCertification" =>
          /\ lastCall'.status = Ok => lastCall'.sender = PovOwner
          /\ lastCall'.sender \in ValidatorAccounts =>
                /\ lastCall'.status = "OwnableUnauthorizedAccount"
                /\ certifications' = certifications
      ]_vars

(***************************************************************************)
(* The pass threshold of the variants that select by threshold, and the    *)
(* reports the selection is made from.                                     *)
(***************************************************************************)
ThresholdVariants == {"aggregator.js", "part_000", "simulation_v1"}

PassThreshold(variant) ==
    CASE variant = "aggregator.js" -> PassMark
      [] variant = "part_000" -> ACCURACY_THRESHOLD
      [] OTHER -> CommitteeFloor(variant)

Candidates(variant, ms) ==
    IF variant = "aggregator.js" THEN ValidMiners(ms) ELSE PotentialMiners

RECURSIVE SumAccuracy(_, _)
SumAccuracy(list, reports) ==
    IF list = <<>> THEN 0
    ELSE reports[Head(list)].accuracy + SumAccuracy(Tail(list), reports)

(***************************************************************************)
(* C30: the pass rule is inclusive.  A selection by threshold keeps        *)
(* exactly the reports with accuracy >= the pass threshold, so a worker    *)
(* whose accuracy equals the threshold is among the winning miners and     *)
(* its vote counts; a threshold-only selection keeps them in input order.  *)
(***************************************************************************)
C30_PassRuleInclusive ==
    [][ (lastCall'.op = "NewRequest"
            /\ aggregatorTx'.variant \in ThresholdVariants) =>
          LET tx == aggregatorTx'
              passing ==
                  SelectSeq(Candidates(tx.variant, miners),
                            LAMBDA m : tx.reports[m].accuracy >=
                                          PassThreshold(tx.variant))
          IN
          /\ {tx.winners[i] : i \in 1..Len(tx.winners)} =
                {passing[i] : i \in 1..Len(passing)}
          /\ Len(tx.winners) = Len(passing)
          /\ tx.variant # "simulation_v1" => tx.winners = passing
          /\ tx.aiWeight + tx.realWeight = SumAccuracy(passing, tx.reports)
      ]_vars

(***************************************************************************)
(* The pass rule of each variant: part_000 keeps accuracy >= 70;           *)
(* aggregator.js keeps accuracy > 70 and simulation_v1.js accuracy > 0.6,  *)
(* so there a report equal to the threshold is left out.                   *)
(***************************************************************************)
PassRules ==
    [][ (lastCall'.op = "NewRequest"
            /\ aggregatorTx'.variant \in ThresholdVariants) =>
          LET tx == aggregatorTx'
              t == PassThreshold(tx.variant)
          IN
          \A m \in Miners :
              /\ (\E i \in 1..Len(tx.winners) : tx.winners[i] = m) =>
                    IF tx.variant = "part_000"
                        THEN tx.reports[m].accuracy >= t
                        ELSE tx.reports[m].accuracy > t
              /\ (tx.variant = "part_000" /\ tx.reports[m].accuracy >= t) =>
                    \E i \in 1..Len(tx.winners) : tx.winners[i] = m
              /\ (tx.variant = "simulation_v1" /\ tx.reports[m].accuracy > t)
                    => \E i \in 1..Len(tx.winners) : tx.winners[i] = m
              /\ (tx.variant = "simulation_v1" /\ tx.reports[m].accuracy = t)
                    => \A i \in 1..Len(tx.winners) : tx.winners[i] # m
      ]_vars

(***************************************************************************)
(* C29: the top-K selection returns at most committee_size members; every  *)
(* selected report has an accuracy at least that of every report left      *)
(* out; among reports of equal accuracy the earlier in the input is        *)
(* preferred, and equal reports keep their input order in the committee.   *)
(***************************************************************************)
C29_TopKStable ==
    selection.selected =>
        LET r == selection.reports
            c == selection.committee
            chosen == {c[p] : p \in 1..Len(c)}
            left == (1..Len(r)) \ chosen
        IN
        /\ Len(c) <= TopKSize
        /\ chosen \subseteq 1..Len(r)
        /\ Cardinality(chosen) = Len(c)
        /\ \A i \in chosen, j \in left :
              /\ r[i].accuracy >= r[j].accuracy
              /\ r[i].accuracy = r[j].accuracy => i < j
        /\ \A p, q \in 1..Len(c) :
              (p < q /\ r[c[p]].accuracy = r[c[q]].accuracy) => c[p] < c[q]

(***************************************************************************)
(* Four reports of which the last three are equal and better than the      *)
(* first: the committee of two is the second and the third, in that order. *)
(***************************************************************************)
C29_Witness ==
    /\ selection.selected
    /\ Len(selection.reports) = 4
    /\ selection.reports[1].accuracy = 1
    /\ \A i \in 2..4 : selection.reports[i].accuracy = 2
    /\ selection.committee = <<2, 3>>

(***************************************************************************)
(* The committee is as large as the input allows.                          *)
(***************************************************************************)
TopKFull ==
    selection.selected =>
        Len(selection.committee) = Min(TopKSize, Len(selection.reports))

(***************************************************************************)
(* C31: slashValidator(v, p) sent by the owner with p <= 100 for a         *)
(* registered validator v succeeds and takes exactly floor(stake * p /     *)
(* 100) from v's stake and from the token balance of the registry; the     *)
(* amount goes to the dead address, v stays registered and no other        *)
(* validator changes.  A call with p > 100, for a validator that is not    *)
(* registered, or by another sender reverts and changes no state.          *)
(***************************************************************************)
C31_SlashTakesPercentage ==
    [][ lastCall'.op = "slashValidator" =>
          LET v == lastCall'.leader
              p == lastCall'.percentage
              old == validators[v]
              taken == WeiSub(old.stake, validators'[v].stake)
              product == WeiMul(old.stake, p)
              allowed == /\ lastCall'.sender = PovOwner
                         /\ old.isRegistered
                         /\ p <= 100
          IN
          /\ lastCall'.status = Ok <=> allowed
          /\ lastCall'.status # Ok =>
                /\ povVars' = povVars
                /\ veritasVars' = veritasVars
          /\ lastCall'.status = Ok =>
                /\ WeiLeq(validators'[v].stake, old.stake)
                /\ WeiLeq(WeiMul(taken, 100), product)
                /\ WeiLess(product, WeiMul(WeiAdd(taken, OneWei), 100))
                /\ veriBalances'[ValidatorRegistry] =
                      WeiSub(veriBalances[ValidatorRegistry], taken)
                /\ veriBalances'[DeadAddress] =
                      WeiAdd(veriBalances[DeadAddress], taken)
                /\ validators'[v] = [old EXCEPT !.stake = validators'[v].stake]
                /\ validatorAddresses' = validatorAddresses
                /\ \A w \in ValidatorAccounts \ {v} :
                      validators'[w] = validators[w]
                /\ \A a \in VeriAccounts \ {ValidatorRegistry, DeadAddress} :
                      veriBalances'[a] = veriBalances[a]
      ]_vars

(***************************************************************************)
(* The owner has slashed validator1 by 50% of a stake of an odd number of  *)
(* wei (2 * MIN_STAKE - 1): the amount taken is MIN_STAKE - 1, rounded     *)
(* down, and MIN_STAKE stays.                                              *)
(***************************************************************************)
C31_Witness ==
    /\ lastCall.op = "slashValidator"
    /\ lastCall.status = Ok
    /\ lastCall.leader = Validator1
    /\ lastCall.percentage = 50
    /\ lastCall.fee = WeiSub(MIN_STAKE, OneWei)
    /\ validators[Validator1].stake = MIN_STAKE
    /\ validators[Validator1].isRegistered
    /\ slashCount = 1

(***************************************************************************)
(* C32: in every state reached through registerValidator, addStake,        *)
(* requestUnbond, withdrawStake and slashValidator, every validator with   *)
(* isRegistered = true has a stake of at least MIN_STAKE.                  *)
(***************************************************************************)
C32_RegisteredValidatorHasMinStake ==
    \A v \in ValidatorAccounts :
        validators[v].isRegistered => WeiLeq(MIN_STAKE, validators[v].stake)

(***************************************************************************)
(* What the registry does keep: a registered validator is below MIN_STAKE  *)
(* only after a slash, and every registered validator is listed in         *)
(* validatorAddresses exactly once.                                        *)
(***************************************************************************)
ValidatorStakeRules ==
    /\ slashCount = 0 => C32_RegisteredValidatorHasMinStake
    /\ \A v \in ValidatorAccounts :
          validators[v].isRegistered <=>
             Cardinality({i \in 1..Len(validatorAddresses) :
                             validatorAddresses[i] = v}) = 1
    /\ Len(validatorAddresses) <= Cardinality(ValidatorAccounts)

(***************************************************************************)
(* C33: finalizeResult succeeds only for a request created by an earlier   *)
(* submitRequest: every finalized request has an id below nextRequestId    *)
(* and a requester that is not the zero address, and a request for which   *)
(* miners have been paid is one whose fee was collected.                   *)
(***************************************************************************)
C33_FinalizedWasSubmitted ==
    \A id \in RequestIds :
        /\ requests[id].isFinalized =>
              /\ id < nextRequestId
              /\ requests[id].requester # ZeroAddr
        /\ paidToMiners[id] > 0 => feeCollected[id] > 0

(***************************************************************************)
(* What the code does keep: a finalizeResult that succeeds for an id below *)
(* nextRequestId finalizes a record with a requester and a collected fee.  *)
(***************************************************************************)
FinalizeOfCreatedRequest ==
    [][ (/\ lastCall'.op = "finalizeResult"
         /\ lastCall'.status = Ok
         /\ lastCall'.id < nextRequestId) =>
            /\ requests'[lastCall'.id].isFinalized
            /\ requests'[lastCall'.id].requester # ZeroAddr
            /\ feeCollected[lastCall'.id] > 0
      ]_vars

(***************************************************************************)
(* The Pending requests: created and not finalized.                        *)
(***************************************************************************)
PendingRequests ==
    {id \in RequestIds : id < nextRequestId /\ ~requests[id].isFinalized}

(***************************************************************************)
(* C34: with the fee unchanged, in every state reached through             *)
(* submitRequest, finalizeResult and withdrawRevenue the token balance of  *)
(* VeritasCore is at least floor(verificationFee * 80 / 100) for every     *)
(* Pending request, so each of them can still be paid out in full.         *)
(***************************************************************************)
C34_SolventForPending ==
    balances[Core] >=
        ((verificationFee * 80) \div 100) * Cardinality(PendingRequests)

(***************************************************************************)
(* What the code does: withdrawRevenue by the owner moves the whole        *)
(* balance of the core to the owner, whatever is pending, and by anybody   *)
(* else reverts; as long as the owner has withdrawn nothing the core       *)
(* covers its pending requests.                                            *)
(***************************************************************************)
RevenueRules ==
    [][ /\ lastCall'.op = "withdrawRevenue" =>
             IF lastCall'.sender = Owner
                 THEN /\ lastCall'.status = Ok
                      /\ balances'[Core] = 0
                      /\ balances'[Owner] = balances[Owner] + balances[Core]
                      /\ requests' = requests
                 ELSE /\ lastCall'.status # Ok
                      /\ balances' = balances
        /\ balances'[Owner] = OwnerFunds => C34_SolventForPending'
      ]_vars

(***************************************************************************)
(* C35: whatever the aggregator passes as _winningMiners, a successful     *)
(* finalizeResult gives each miner address at most one reward share,       *)
(* floor(minerPool / n) with n the length of the array.                    *)
(***************************************************************************)
C35_OneSharePerMiner ==
    [][ LET w == lastCall'.winners
            n == Len(w)
        IN (FinalizeOk(lastCall') /\ n > 0) =>
              \A m \in Miners :
                  balances'[m] - balances[m] <= Share(verificationFee, n)
      ]_vars

(***************************************************************************)
(* What the code does: one share per entry of the array that names an      *)
(* eligible miner, so a miner named k times receives k shares, and a       *)
(* miner named once receives one.                                          *)
(***************************************************************************)
OneSharePerEntry ==
    [][ LET w == lastCall'.winners
            n == Len(w)
        IN (FinalizeOk(lastCall') /\ n > 0) =>
              \A m \in Miners :
                  balances'[m] - balances[m] =
                      IF isMinerEligible(miners, m)
                          THEN Share(verificationFee, n)
                                 * Cardinality(Entries(w, m))
                          ELSE 0
      ]_vars

(***************************************************************************)
(* C36: a miner whose reputationScore has fallen to 20 or lower is not     *)
(* eligible, and stays so under every sequence of registry operations,     *)
(* until updateMinerPerformance calls with passed = true have raised the   *)
(* score above 20.  (excluded holds from the update that leaves the score  *)
(* at 20 or lower to the update that leaves it above.)                     *)
(***************************************************************************)
C36_ExclusionNotBypassed ==
    \A m \in Miners : excluded[m] => ~isMinerEligible(miners, m)

(***************************************************************************)
(* What the code does keep: an excluded miner becomes eligible only by a   *)
(* passed update that lifts the score above 20 or by its own registerMiner *)
(* call, which writes a new record with the score 50.                      *)
(***************************************************************************)
ExclusionRules ==
    [][ \A m \in Miners :
          (excluded[m] /\ ~isMinerEligible(miners, m)
             /\ isMinerEligible(miners', m)) =>
             \/ /\ lastCall'.op = "updateMinerPerformance"
                /\ lastCall'.miner = m
                /\ lastCall'.passed
                /\ lastCall'.status = Ok
                /\ miners'[m].reputationScore = EligibilityFloor + 1
                /\ ~excluded'[m]
             \/ /\ lastCall'.op = "registerMiner"
                /\ lastCall'.sender = m
                /\ lastCall'.status = Ok
                /\ miners'[m].reputationScore = InitialReputation
                /\ ~miners[m].isRegistered
      ]_vars

(***************************************************************************)
(* C37: in every state reached through registerMiner, deregisterMiner and  *)
(* slashMiner, minerList holds exactly the accounts with isRegistered =    *)
(* true, each of them once.                                                *)
(***************************************************************************)
C37_MinerListMirrorsRegistered ==
    \A m \in Miners :
        Cardinality(Entries(minerList, m)) =
            IF miners[m].isRegistered THEN 1 ELSE 0

(***************************************************************************)
(* What the code does keep: a registered miner is listed, and the list is  *)
(* exact as long as no slash has evicted anybody, that is, as long as no   *)
(* account that is not registered has a stake left.                        *)
(***************************************************************************)
MinerListRules ==
    /\ \A m \in Miners :
          miners[m].isRegistered => Entries(minerList, m) # {}
    /\ totalSupply = InitialSupply => C37_MinerListMirrorsRegistered

(***************************************************************************)
(* The stakes the registry attributes to registered miners.                *)
(***************************************************************************)
RECURSIVE SumStakes(_, _)
SumStakes(ms, S) ==
    IF S = {} THEN 0
    ELSE LET m == CHOOSE x \in S : TRUE IN
         (IF ms[m].isRegistered THEN ms[m].stakedAmount ELSE 0)
             + SumStakes(ms, S \ {m})

(***************************************************************************)
(* C38: in every state reached through registerMiner, deregisterMiner and  *)
(* slashMiner, the token balance of the registry equals the sum of         *)
(* stakedAmount over the registered miners: no staked token stays in the   *)
(* registry without belonging to a registered miner.                       *)
(***************************************************************************)
C38_StakeAccountingExact ==
    balances[Registry] = SumStakes(miners, Miners)

(***************************************************************************)
(* What the code does keep: the registry never holds less than the stakes  *)
(* of the registered miners, and the difference grows only by what a slash *)
(* leaves to the miner it evicts.                                          *)
(***************************************************************************)
StakeAccountingRules ==
    [][ LET stranded == balances[Registry] - SumStakes(miners, Miners)
            strandedAfter == balances'[Registry] - SumStakes(miners', Miners)
            m == lastCall'.miner
        IN
        /\ stranded >= 0
        /\ strandedAfter =
              stranded +
                 IF /\ lastCall'.op = "slashMiner"
                    /\ lastCall'.status = Ok
                    /\ ~miners'[m].isRegistered
                     THEN miners'[m].stakedAmount
                     ELSE 0
      ]_vars

(***************************************************************************)
(* A request waits for its handler while the miner whose report clears the *)
(* threshold in both scripts (95 in aggregator.js, 100 in part_000) is     *)
(* eligible.  No miner becomes eligible again here, so the miner was       *)
(* eligible when the request was submitted.                                *)
(***************************************************************************)
SubmittedWithCandidate(id) ==
    id \in pending /\ isMinerEligible(miners, "m1")

HandlerRan(id) == handlers[id].state # "idle"

(***************************************************************************)
(* C39: under fair scheduling of the NewRequest handlers, every request    *)
(* submitted while a candidate miner is eligible and clears the accuracy   *)
(* threshold is eventually finalized, however the handlers of different    *)
(* requests interleave, and no request whose handler ran stays Pending     *)
(* forever.                                                                *)
(***************************************************************************)
C39_EveryRequestFinalized ==
    \A id \in RequestIds :
        /\ SubmittedWithCandidate(id) ~> requests[id].isFinalized
        /\ HandlerRan(id) ~> requests[id].isFinalized

(***************************************************************************)
(* What the code does: every event is handled, and every handler ends,     *)
(* finalized, failed (the revert was caught and logged) or returned (no    *)
(* transaction was made); only a finalized handler has finalized its       *)
(* request.                                                                *)
(***************************************************************************)
HandlersEnd ==
    \A id \in RequestIds :
        (id \in pending \/ HandlerRan(id)) ~>
            handlers[id].state \in {"finalized", "failed", "returned"}

HandlerRules ==
    \A id \in RequestIds :
        /\ handlers[id].state = "finalized" =>
              /\ requests[id].isFinalized
              /\ id \in everFinalized
        /\ (id < nextRequestId /\ requests[id].isFinalized) =>
              handlers[id].state = "finalized"
        /\ handlers[id].state = "returned" =>
              /\ handlers[id].tx.variant = "aggregator.js"
              /\ \A m \in Miners : ~isMinerEligible(miners, m)

=============================================================================
